---- MODULE Spec2Model ----
(***************************************************************************)
(* Expense tracker: the expense context (store, filters, fetched list),    *)
(* the Reports component (report scope, chart data, summary, export        *)
(* dialog) and the export pipeline (csv, spreadsheet, pdf).                *)
(*                                                                         *)
(* Dates are calendar dates in local time, coded y*10000 + m*100 + d with  *)
(* m the JavaScript month index (0 = January).  Amounts are whole numbers  *)
(* (currency units).  Text is a sequence of one-character strings.         *)
(***************************************************************************)
EXTENDS Integers, Sequences, FiniteSets, TLC

VARIABLES
    store,                  \* documents of users/<uid>/expenses
    expenses,               \* ExpenseContext state: the fetched list
    filters,                \* ExpenseContext state: the filter set
    fetchedWith,            \* filter set read by the latest fetchExpenses call
    deleteConfirmed,        \* expenses whose deletion the user confirmed
    budgets,                \* ExpenseContext state: the fetched budgets
    budgetDocs,             \* documents of users/<uid>/budgets, in id order
    currentUser,            \* auth.currentUser is set
    loading,                \* ExpenseContext state
    error,                  \* ExpenseContext state
    inFlight,               \* store requests awaiting their answer
    forms,                  \* state of ExpenseForm and of the budget form
    submitted,              \* form data read by handleSubmit in the latest step
    settled,                \* store request answered in the latest step
    reportType, year, month, category,          \* Reports state
    exportOptions,          \* Reports state
    showExportMenu, showExportOptions, currentExportType,
    preferredExportFormat, isExporting,
    savedFormat,            \* localStorage slot 'preferredExportFormat'
    timers,                 \* pending setTimeout callbacks of processExport
    indicators,             \* loading indicators attached to document.body
    pdfExportMode,          \* report container carries class pdf-export-mode
    download,               \* document handed to the download sink by the latest step
    alerts,                 \* alert() messages raised by the latest step
    propagated,             \* the latest step let an exception escape its handler
    workbook,               \* workbook passed to writeFile by the latest step
    csvFields, csvEmitted, csvParsed, csvPhase  \* csv escaping round trip

vars == <<store, expenses, filters, fetchedWith, deleteConfirmed, budgets,
          budgetDocs, currentUser, loading, error, inFlight, forms, submitted,
          settled,
          reportType, year, month, category, exportOptions,
          showExportMenu, showExportOptions, currentExportType,
          preferredExportFormat, isExporting, savedFormat, timers,
          indicators, pdfExportMode, download, alerts,
          propagated, workbook,
          csvFields, csvEmitted, csvParsed, csvPhase>>

contextVars == <<store, expenses, filters, fetchedWith, deleteConfirmed,
                 budgets, budgetDocs>>
asyncVars   == <<currentUser, loading, error, inFlight, forms, submitted,
                 settled>>
scopeVars   == <<reportType, year, month, category>>
dialogVars  == <<showExportMenu, showExportOptions, currentExportType>>
formatVars  == <<preferredExportFormat, savedFormat>>
domVars     == <<indicators, pdfExportMode>>
outVars     == <<download, alerts, propagated, workbook>>
csvVars     == <<csvFields, csvEmitted, csvParsed, csvPhase>>

\* null in the error state
NoError == ""
NoSubmit == [form |-> "none"]
NoSettle == [op |-> "none"]

\* the two forms as they mount; mounted is the form the page shows
FormsIdle ==
    [mounted |-> "none",
     expense |-> [error |-> NoError, onSubmit |-> FALSE],
     budget  |-> [error |-> NoError, onSubmit |-> FALSE, loading |-> FALSE]]

\* the provider of a signed-in user with no request under way
AsyncIdle ==
    /\ currentUser = TRUE
    /\ loading = FALSE
    /\ error = NoError
    /\ inFlight = << >>
    /\ forms = FormsIdle
    /\ submitted = NoSubmit
    /\ settled = NoSettle

----------------------------------------------------------------------------
(* Bounds *)

MaxExpenses == 3        \* records in the fetched list
MaxLen      == 3        \* characters in a text field of the csv round trip
MaxStore    == 2        \* documents in the store of the context checks

----------------------------------------------------------------------------
(* Dates *)

MkDate(y, m, d) == y * 10000 + m * 100 + d
getFullYear(date) == date \div 10000
getMonth(date)    == (date \div 100) % 100
getDate(date)     == date % 100

IsLeapYear(y) == (y % 4 = 0 /\ y % 100 # 0) \/ y % 400 = 0

\* a month length that ignores leap years
DaysInMonthNoLeap(y, m) ==
    IF m = 1 THEN 28
    ELSE IF m \in {3, 5, 8, 10} THEN 30 ELSE 31

\* new Date(year, month + 1, 0).getDate()
DaysInMonth(y, m) ==
    IF m = 1 THEN (IF IsLeapYear(y) THEN 29 ELSE 28)
    ELSE IF m \in {3, 5, 8, 10} THEN 30 ELSE 31

getMonthName(m) ==
    <<"January", "February", "March", "April", "May", "June", "July",
      "August", "September", "October", "November", "December">>[m + 1]

----------------------------------------------------------------------------
(* Data domains *)

Years  == {2023, 2024}
Months == {0, 1}
Dates  == {MkDate(2024, 0, 5), MkDate(2024, 0, 31), MkDate(2024, 1, 29),
           MkDate(2023, 0, 5)}
Amounts == {10, 20}
NoCategory == ""
\* id |-> display name, for the categories the model uses
EXPENSE_CATEGORIES ==
    <<[id |-> "food", name |-> "Food & Dining"],
      [id |-> "transportation", name |-> "Transportation"]>>
CategoryIds == {EXPENSE_CATEGORIES[i].id : i \in 1..Len(EXPENSE_CATEGORIES)}

NoText == << >>
Expense(a, c, d, t, n) ==
    [amount |-> a, category |-> c, date |-> d, title |-> t, notes |-> n]

\* records of the aggregation checks: title and notes play no part
AggDomain ==
    {Expense(a, c, d, <<"a">>, NoText) :
        a \in Amounts, c \in {"food", NoCategory}, d \in Dates}

RECURSIVE SumSeq(_)
SumSeq(s) == IF s = << >> THEN 0 ELSE Head(s) + SumSeq(Tail(s))

RECURSIVE SumAmounts(_)
SumAmounts(s) == IF s = << >> THEN 0 ELSE Head(s).amount + SumAmounts(Tail(s))

RECURSIVE SumOver(_)
SumOver(S) ==
    IF S = {} THEN 0
    ELSE LET e == CHOOSE x \in S : TRUE IN e.amount + SumOver(S \ {e})

Range(s) == {s[i] : i \in 1..Len(s)}

IsSortedDesc(s) == \A i \in 1..(Len(s) - 1) : s[i].date >= s[i + 1].date
IsInjective(s)  == \A i, j \in 1..Len(s) : i # j => s[i] # s[j]

\* the lists fetchExpenses can produce over a record domain: distinct
\* documents, newest first (orderBy('date', 'desc')), ties in any order
FetchedLists(D) ==
    {s \in UNION {[1..n -> D] : n \in 0..MaxExpenses} :
        IsSortedDesc(s) /\ IsInjective(s)}

RECURSIVE SelectSeqBy(_, _)
SelectSeqBy(s, keep) ==
    IF s = << >> THEN << >>
    ELSE IF Head(s) \in keep THEN <<Head(s)>> \o SelectSeqBy(Tail(s), keep)
    ELSE SelectSeqBy(Tail(s), keep)

----------------------------------------------------------------------------
(* Reports: report scope and aggregation *)

\* getFilteredExpenses with the state passed explicitly
FilteredBy(exps, rt, y, m, c) ==
    LET byCat == IF c # "" THEN SelectSeqBy(exps, {e \in Range(exps) : e.category = c})
                 ELSE exps
    IN  CASE rt = "monthly" ->
               SelectSeqBy(byCat, {e \in Range(byCat) :
                    getFullYear(e.date) = y /\ getMonth(e.date) = m})
          [] rt = "yearly" ->
               SelectSeqBy(byCat, {e \in Range(byCat) : getFullYear(e.date) = y})
          [] OTHER -> byCat

getFilteredExpenses == FilteredBy(expenses, reportType, year, month, category)

\* the forEach loops that add each amount to its bucket: acc is a function
\* from the keys seen so far to their running sums, keys the discovery order
RECURSIVE Accumulate(_, _, _, _)
Accumulate(s, mode, acc, keys) ==
    IF s = << >> THEN [sums |-> acc, keys |-> keys]
    ELSE LET e == Head(s)
             k == CASE mode = "day"   -> getDate(e.date)
                    [] mode = "month" -> getMonth(e.date)
                    [] OTHER -> IF e.category # "" THEN e.category ELSE "uncategorized"
         IN  IF k \in DOMAIN acc
             THEN Accumulate(Tail(s), mode, [acc EXCEPT ![k] = @ + e.amount], keys)
             ELSE Accumulate(Tail(s), mode,
                             [x \in DOMAIN acc \cup {k} |->
                                 IF x = k THEN e.amount ELSE acc[x]],
                             Append(keys, k))

EmptyAcc == [x \in {} |-> 0]

\* labels of a month that always has 31 days
MonthlyLabelsFixed(y, m) == [i \in 1..31 |-> i]

\* Array.from({ length: daysInMonth }, (_, i) => i + 1)
MonthlyLabels(y, m) == [i \in 1..DaysInMonth(y, m) |-> i]

generateMonthlyReportData ==
    LET expensesByDay == Accumulate(getFilteredExpenses, "day", EmptyAcc, << >>).sums
        labels == MonthlyLabels(year, month)
    IN  [labels |-> labels,
         data   |-> [i \in 1..Len(labels) |->
                        IF labels[i] \in DOMAIN expensesByDay
                        THEN expensesByDay[labels[i]] ELSE 0]]

generateYearlyReportData ==
    LET byMonth == Accumulate(getFilteredExpenses, "month", EmptyAcc, << >>).sums
    IN  [labels |-> [i \in 1..12 |-> getMonthName(i - 1)],
         data   |-> [i \in 1..12 |->
                        IF (i - 1) \in DOMAIN byMonth THEN byMonth[i - 1] ELSE 0]]

CategoryLabel(catId) ==
    IF \E i \in 1..Len(EXPENSE_CATEGORIES) : EXPENSE_CATEGORIES[i].id = catId
    THEN (CHOOSE c \in Range(EXPENSE_CATEGORIES) : c.id = catId).name
    ELSE "Uncategorized"

\* a category report with a bucket for every known category
generateCategoryReportDataZeroFilled ==
    LET r == Accumulate(getFilteredExpenses, "category", EmptyAcc, << >>)
    IN  [labels |-> [i \in 1..Len(EXPENSE_CATEGORIES) |-> EXPENSE_CATEGORIES[i].name],
         data   |-> [i \in 1..Len(EXPENSE_CATEGORIES) |->
                        IF EXPENSE_CATEGORIES[i].id \in DOMAIN r.sums
                        THEN r.sums[EXPENSE_CATEGORIES[i].id] ELSE 0]]

generateCategoryReportData ==
    LET r == Accumulate(getFilteredExpenses, "category", EmptyAcc, << >>)
    IN  [labels |-> [i \in 1..Len(r.keys) |-> CategoryLabel(r.keys[i])],
         data   |-> [i \in 1..Len(r.keys) |-> r.sums[r.keys[i]]]]

getChartData ==
    CASE reportType = "monthly"  -> generateMonthlyReportData
      [] reportType = "yearly"   -> generateYearlyReportData
      [] reportType = "category" -> generateCategoryReportData
      [] OTHER -> [labels |-> << >>, data |-> << >>]

chartData == getChartData

----------------------------------------------------------------------------
(* Reports: summary *)

NA == <<"N", "/", "A">>

\* a forEach with non-strict comparisons: the last extreme wins
RECURSIVE ExtremesLast(_, _, _)
ExtremesLast(s, highest, lowest) ==
    IF s = << >> THEN [highest |-> highest, lowest |-> lowest]
    ELSE LET e == Head(s)
         IN  ExtremesLast(Tail(s),
                          IF e.amount >= highest.amount THEN e ELSE highest,
                          IF e.amount <= lowest.amount THEN e ELSE lowest)

\* the forEach of getReportSummary: strict comparisons keep the first extreme
RECURSIVE Extremes(_, _, _)
Extremes(s, highest, lowest) ==
    IF s = << >> THEN [highest |-> highest, lowest |-> lowest]
    ELSE LET e == Head(s)
         IN  Extremes(Tail(s),
                      IF e.amount > highest.amount THEN e ELSE highest,
                      IF e.amount < lowest.amount THEN e ELSE lowest)

\* average is the exact quotient num / den
SummaryOf(filteredExpenses) ==
    IF Len(filteredExpenses) = 0
    THEN [total |-> 0, average |-> [num |-> 0, den |-> 1], count |-> 0,
          highest |-> [amount |-> 0, title |-> NA],
          lowest  |-> [amount |-> 0, title |-> NA]]
    ELSE LET total == SumAmounts(filteredExpenses)
             x == Extremes(filteredExpenses, filteredExpenses[1], filteredExpenses[1])
         IN  [total |-> total,
              average |-> [num |-> total, den |-> Len(filteredExpenses)],
              count |-> Len(filteredExpenses),
              highest |-> x.highest, lowest |-> x.lowest]

\* a summary over the whole fetched list
getReportSummaryUnscoped == SummaryOf(expenses)

getReportSummary == SummaryOf(getFilteredExpenses)

summary == getReportSummary

----------------------------------------------------------------------------
(* Export: common preprocessing *)

NoDate == 0                         \* the empty string of a date input
NoAmount == -2                      \* null: no amount bound
NaN == -1                           \* parseInt of a non-numeric string
\* values of the Limit Results select; the caps 10, 25, 50 and 100 of the
\* source are scaled to 1 and 2 so that they cut lists of MaxExpenses records
MaxItemsValues == {"all", "1", "2"}
parseInt(v) == CASE v = "1" -> 1 [] v = "2" -> 2 [] OTHER -> NaN

\* Array.prototype.sort with (a, b) => new Date(b.date) - new Date(a.date):
\* stable, newest first
RECURSIVE InsertByDate(_, _)
InsertByDate(e, sorted) ==
    IF sorted = << >> THEN <<e>>
    ELSE IF e.date > Head(sorted).date THEN <<e>> \o sorted
    ELSE <<Head(sorted)>> \o InsertByDate(e, Tail(sorted))

\* the same sort with the comparator reversed: oldest first
RECURSIVE InsertByDateAsc(_, _)
InsertByDateAsc(e, sorted) ==
    IF sorted = << >> THEN <<e>>
    ELSE IF e.date < Head(sorted).date THEN <<e>> \o sorted
    ELSE <<Head(sorted)>> \o InsertByDateAsc(e, Tail(sorted))

RECURSIVE SortByDateAsc(_)
SortByDateAsc(s) ==
    IF s = << >> THEN << >>
    ELSE InsertByDateAsc(s[Len(s)], SortByDateAsc(SubSeq(s, 1, Len(s) - 1)))

RECURSIVE SortByDateDesc(_)
SortByDateDesc(s) ==
    IF s = << >> THEN << >>
    ELSE InsertByDate(s[Len(s)], SortByDateDesc(SubSeq(s, 1, Len(s) - 1)))

Slice(s, n) == SubSeq(s, 1, IF n < Len(s) THEN n ELSE Len(s))

\* a date bound that reads dateFrom only
DateBoundedFromOnly(s, options) ==
    IF options.dateFrom # NoDate
    THEN SelectSeqBy(s, {e \in Range(s) : e.date >= options.dateFrom})
    ELSE s

\* the export-time date bound; toDate is moved to the end of its day
DateBounded(s, options) ==
    LET a == IF options.dateFrom # NoDate
             THEN SelectSeqBy(s, {e \in Range(s) : e.date >= options.dateFrom})
             ELSE s
    IN  IF options.dateTo # NoDate
        THEN SelectSeqBy(a, {e \in Range(a) : e.date <= options.dateTo})
        ELSE a

\* exportReportData, lines 670-697: the records handed to exportToCSV and
\* exportToExcel
LimitedExpenses(options) ==
    LET f == DateBounded(getFilteredExpenses, options)
    IN  IF options.maxItems # "all"
        THEN LET maxItems == parseInt(options.maxItems)
             IN  IF maxItems # NaN /\ maxItems > 0
                 THEN Slice(SortByDateDesc(f), maxItems)
                 ELSE f
        ELSE f

\* a detail table that skips the export-time date bound
PdfExpensesUnbounded(options) ==
    LET f == getFilteredExpenses
    IN  IF options.maxItems # "all"
        THEN LET maxItems == parseInt(options.maxItems)
             IN  IF maxItems # NaN /\ maxItems > 0
                 THEN Slice(SortByDateDesc(f), maxItems)
                 ELSE f
        ELSE SortByDateDesc(f)

\* exportToPDF, lines 1130-1162: the rows of the detail table
PdfExpenses(options) ==
    LET f == DateBounded(getFilteredExpenses, options)
    IN  IF options.maxItems # "all"
        THEN LET maxItems == parseInt(options.maxItems)
             IN  IF maxItems # NaN /\ maxItems > 0
                 THEN Slice(SortByDateDesc(f), maxItems)
                 ELSE f
        ELSE SortByDateDesc(f)

LowerMonthName(m) ==
    <<"january", "february", "march", "april", "may", "june", "july",
      "august", "september", "october", "november", "december">>[m + 1]

\* the characters of a category's display name
NameChars(name) ==
    CASE name = "Food & Dining" ->
            <<"F", "o", "o", "d", " ", "&", " ", "D", "i", "n", "i", "n", "g">>
      [] name = "Transportation" ->
            <<"T", "r", "a", "n", "s", "p", "o", "r", "t", "a", "t", "i", "o", "n">>
      [] OTHER -> << >>

UpperLetters ==
    <<"A", "B", "C", "D", "E", "F", "G", "H", "I", "J", "K", "L", "M",
      "N", "O", "P", "Q", "R", "S", "T", "U", "V", "W", "X", "Y", "Z">>
LowerLetters ==
    <<"a", "b", "c", "d", "e", "f", "g", "h", "i", "j", "k", "l", "m",
      "n", "o", "p", "q", "r", "s", "t", "u", "v", "w", "x", "y", "z">>

\* String.prototype.toLowerCase on one character
LowerOf(c) ==
    IF \E i \in 1..26 : UpperLetters[i] = c
    THEN LowerLetters[CHOOSE i \in 1..26 : UpperLetters[i] = c]
    ELSE c

IsWhitespace(c) == c \in {" ", "\t", "\n"}

RECURSIVE SkipWhitespace(_)
SkipWhitespace(s) ==
    IF s # << >> /\ IsWhitespace(Head(s)) THEN SkipWhitespace(Tail(s)) ELSE s

\* a slug that keeps the whitespace of the name
RECURSIVE SlugifyKeepSpaces(_)
SlugifyKeepSpaces(s) ==
    IF s = << >> THEN << >>
    ELSE <<LowerOf(Head(s))>> \o SlugifyKeepSpaces(Tail(s))

\* name.toLowerCase().replace(/\s+/g, '-'): every run of whitespace gives
\* one hyphen
RECURSIVE Slugify(_)
Slugify(s) ==
    IF s = << >> THEN << >>
    ELSE IF IsWhitespace(Head(s))
    THEN <<"-">> \o Slugify(SkipWhitespace(Tail(s)))
    ELSE <<LowerOf(Head(s))>> \o Slugify(Tail(s))

\* categoryObj.name.toLowerCase().replace(/\s+/g, '-'), as characters
CategorySlug(catId) ==
    IF \E i \in 1..Len(EXPENSE_CATEGORIES) : EXPENSE_CATEGORIES[i].id = catId
    THEN Slugify(NameChars(
            EXPENSE_CATEGORIES[CHOOSE i \in 1..Len(EXPENSE_CATEGORIES) :
                                  EXPENSE_CATEGORIES[i].id = catId].name))
    ELSE << >>

\* the filename of exportReportData, as its hyphen-separated parts
ExportFilename ==
    CASE reportType = "monthly"  -> <<"expense-report", LowerMonthName(month), year>>
      [] reportType = "yearly"   -> <<"expense-report", year>>
      [] reportType = "category" ->
            IF category # "" /\ category \in CategoryIds
            THEN <<"expense-report", CategorySlug(category)>>
            ELSE <<"expense-report-by-category">>
      [] OTHER -> <<"expense-report">>

ReportTitle ==
    CASE reportType = "monthly" -> <<"Expenses for", getMonthName(month), year>>
      [] reportType = "yearly"  -> <<"Expenses for", year>>
      [] OTHER -> <<"Expenses by Category">>

----------------------------------------------------------------------------
(* Initial values *)

Formats  == {"csv", "excel", "pdf"}
NoFormat == "none"                  \* null: no export type, empty storage slot
NoDownload == [kind |-> "none"]
NoWorkbook == [written |-> FALSE]

DefaultFilters ==
    [startDate |-> NoDate, endDate |-> NoDate, category |-> "",
     minAmount |-> NoAmount, maxAmount |-> NoAmount, searchTerm |-> NoText]

DefaultExportOptions ==
    [includeSummary |-> TRUE, includeChart |-> TRUE, includeDetails |-> TRUE,
     maxItems |-> "all", dateFrom |-> NoDate, dateTo |-> NoDate]

ContextInit ==
    /\ store = {}
    /\ expenses = << >>
    /\ filters = DefaultFilters
    /\ fetchedWith = DefaultFilters
    /\ deleteConfirmed = {}
    /\ budgets = << >>
    /\ budgetDocs = << >>
    /\ AsyncIdle

\* useState initial values of Reports, followed by its mount effect, which
\* loads the saved format
ReportsInit ==
    /\ reportType = "monthly"
    /\ year \in Years
    /\ month \in Months
    /\ category = ""
    /\ exportOptions = DefaultExportOptions
    /\ showExportMenu = FALSE
    /\ showExportOptions = FALSE
    /\ currentExportType = NoFormat
    /\ preferredExportFormat = IF savedFormat # NoFormat THEN savedFormat ELSE "csv"
    /\ isExporting = FALSE
    /\ timers = 0
    /\ indicators = 0
    /\ pdfExportMode = FALSE

OutInit ==
    /\ download = NoDownload
    /\ alerts = << >>
    /\ propagated = FALSE
    /\ workbook = NoWorkbook

CsvIdle ==
    /\ csvFields = << >>
    /\ csvEmitted = << >>
    /\ csvParsed = << >>
    /\ csvPhase = "idle"

\* a step that hands nothing to the sink, raises no alert and throws nothing
NoOutput ==
    /\ download' = NoDownload
    /\ alerts' = << >>
    /\ propagated' = FALSE
    /\ workbook' = NoWorkbook

----------------------------------------------------------------------------
(* Reports: the report controls *)

\* getYears: the years of the fetched expenses, or the current year
getYears ==
    IF expenses = << >> THEN Years
    ELSE {getFullYear(expenses[i].date) : i \in 1..Len(expenses)}

SetReportType(rt) ==
    /\ reportType' = rt
    /\ NoOutput
    /\ UNCHANGED <<contextVars, year, month, category, exportOptions, dialogVars,
                   formatVars, isExporting, timers, domVars, csvVars, asyncVars>>

SetYear(y) ==
    /\ reportType # "category"
    /\ y \in getYears
    /\ year' = y
    /\ NoOutput
    /\ UNCHANGED <<contextVars, reportType, month, category, exportOptions,
                   dialogVars, formatVars, isExporting, timers, domVars, csvVars, asyncVars>>

SetMonth(m) ==
    /\ reportType = "monthly"
    /\ month' = m
    /\ NoOutput
    /\ UNCHANGED <<contextVars, reportType, year, category, exportOptions,
                   dialogVars, formatVars, isExporting, timers, domVars, csvVars, asyncVars>>

SetCategory(c) ==
    /\ category' = c
    /\ NoOutput
    /\ UNCHANGED <<contextVars, reportType, year, month, exportOptions,
                   dialogVars, formatVars, isExporting, timers, domVars, csvVars, asyncVars>>

ReportTypes == {"monthly", "yearly", "category"}

ScopeNext ==
    \/ \E rt \in ReportTypes : SetReportType(rt)
    \/ \E y \in Years : SetYear(y)
    \/ \E m \in Months : SetMonth(m)
    \/ \E c \in CategoryIds \cup {""} : SetCategory(c)

----------------------------------------------------------------------------
(* Export: the three formats *)

\* a page that always shows a canvas
chartMountedAlways == TRUE

\* a canvas exists under .h-80 when the chart has labels (line 1500)
chartMounted == Len(chartData.labels) > 0

\* points at which the environment can make an export throw
FailPoints == {"none", "storage", "csvBlob", "excelSheet", "pdfInit", "pdfSave"}

Doc(kind, filename) ==
    [kind |-> kind, filename |-> filename, ext |-> "",
     hasSummary |-> FALSE, summary |-> SummaryOf(<< >>),
     breakdown |-> [labels |-> << >>, data |-> << >>],
     separator |-> FALSE, chartTitle |-> FALSE, chartImage |-> FALSE,
     hasDetails |-> FALSE, details |-> << >>,
     placeholder |-> FALSE, sheets |-> << >>, pages |-> << >>]

\* what a call leaves behind: the document handed to the sink, the alerts
\* raised, whether it threw, the workbook given to writeFile, the DOM
Effects(doc, al, threw, wb, ind, mode) ==
    [download |-> doc, alerts |-> al, threw |-> threw, workbook |-> wb,
     indicators |-> ind, pdfExportMode |-> mode]

\* csv is the concatenation of the enabled blocks; it is '' when none is
exportToCSV(filteredExpenses, filename, options, fail) ==
    LET csv == [Doc("csv", filename) EXCEPT
                    !.ext = ".csv",
                    !.hasSummary = options.includeSummary,
                    !.summary = IF options.includeSummary THEN summary ELSE @,
                    !.breakdown = IF options.includeSummary THEN chartData ELSE @,
                    !.separator = options.includeSummary /\ options.includeDetails,
                    !.hasDetails = options.includeDetails,
                    !.details = IF options.includeDetails THEN filteredExpenses ELSE @]
    IN  IF fail = "csvBlob"
        THEN Effects(NoDownload, << >>, TRUE, NoWorkbook, indicators, pdfExportMode)
        ELSE Effects(csv, << >>, FALSE, NoWorkbook, indicators, pdfExportMode)

\* emptyRejected: writeFile of the xlsx library throws on a workbook
\* without sheets
exportToExcel(filteredExpenses, filename, options, fail, emptyRejected) ==
    LET sheets == (IF options.includeSummary THEN <<"Summary">> ELSE << >>)
                  \o (IF options.includeDetails THEN <<"Expenses">> ELSE << >>)
        wb == [Doc("excel", filename) EXCEPT
                    !.ext = ".xlsx",
                    !.hasSummary = options.includeSummary,
                    !.summary = IF options.includeSummary THEN summary ELSE @,
                    !.breakdown = IF options.includeSummary THEN chartData ELSE @,
                    !.hasDetails = options.includeDetails,
                    !.details = IF options.includeDetails THEN filteredExpenses ELSE @,
                    !.sheets = sheets]
        failed == <<"Failed to export to Excel. Please try again later.">>
    IN  IF fail = "excelSheet"
        THEN Effects(NoDownload, failed, FALSE, NoWorkbook, indicators, pdfExportMode)
        ELSE IF sheets = << >> /\ emptyRejected
        THEN Effects(NoDownload, failed, FALSE,
                     [written |-> TRUE, sheets |-> sheets], indicators, pdfExportMode)
        ELSE Effects(wb, << >>, FALSE,
                     [written |-> TRUE, sheets |-> sheets], indicators, pdfExportMode)

----------------------------------------------------------------------------
(* exportToPDF: pages, header, footer and the vertical flow, in mm *)

PdfWidth == 210                     \* new jsPDF('p', 'mm', 'a4')
PdfHeight == 297
MarginX == 10
ContentWidth == PdfWidth - 20
ContentTop == 30                    \* yPosition on a fresh page
RowHeight == 8

\* the canvas under .h-80 as the chart library sized it, in pixels: the
\* library's 2:1 default and a canvas taller than wide
StandardCanvas == [width |-> 600, height |-> 300]
Canvases == {StandardCanvas, [width |-> 400, height |-> 600]}

\* something drawn on a page: y is where it is placed, bottom the lowest
\* coordinate it reaches, n a page number or a row index
Item(kind, y, bottom, n) == [kind |-> kind, y |-> y, bottom |-> bottom, n |-> n]

\* new jsPDF: a document of one empty page
NewPdf == [pages |-> << << >> >>, pageCount |-> 0]

\* pdf.text, pdf.rect, pdf.line, pdf.addImage: drawn on the last page
Draw(pdf, item) == [pdf EXCEPT !.pages[Len(pdf.pages)] = Append(@, item)]

\* a page break that draws neither header nor footer
AddBarePage(pdf) ==
    [pages |-> Append(pdf.pages, << >>), pageCount |-> pdf.pageCount + 1]

\* addPageWithHeaderFooter, lines 993-1014
AddPageWithHeaderFooter(pdf) ==
    LET added == IF pdf.pageCount > 0
                 THEN [pdf EXCEPT !.pages = Append(@, << >>)]
                 ELSE pdf
        counted == [added EXCEPT !.pageCount = @ + 1]
        title == Draw(counted, Item("header", 15, 15, 0))
        line == Draw(title, Item("headerLine", 20, 20, 0))
        date == Draw(line, Item("footerDate", PdfHeight - 10, PdfHeight - 10, 0))
    IN  Draw(date, Item("pageNumber", PdfHeight - 10, PdfHeight - 10,
                        counted.pageCount))

\* the flow: the document so far and yPosition
Flow(pdf, y) == [pdf |-> pdf, y |-> y]

\* summaryItems.forEach, lines 1041-1050: the line is drawn, then the
\* position is tested
RECURSIVE SummaryLines(_, _)
SummaryLines(fl, k) ==
    IF k = 0 THEN fl
    ELSE LET drawn == Draw(fl.pdf, Item("summaryLine", fl.y, fl.y, 0))
             y == fl.y + 8
         IN  IF y > PdfHeight - 20
             THEN SummaryLines(Flow(AddPageWithHeaderFooter(drawn), ContentTop), k - 1)
             ELSE SummaryLines(Flow(drawn, y), k - 1)

\* lines 1025-1054
SummarySection(fl) ==
    LET heading == Draw(fl.pdf, Item("summaryHeading", fl.y, fl.y, 0))
        lines == SummaryLines(Flow(heading, fl.y + 10), 5)
    IN  Flow(lines.pdf, lines.y + 10)

NoCanvas == [width |-> 0, height |-> 0]

\* lines 1057-1094; chartHeight is chartWidth * (height / width)
ChartSection(fl, canvas) ==
    LET a == IF fl.y > PdfHeight - 100
             THEN Flow(AddPageWithHeaderFooter(fl.pdf), ContentTop)
             ELSE fl
        titled == Flow(Draw(a.pdf, Item("chartTitle", a.y, a.y, 0)), a.y + 10)
    IN  IF canvas = NoCanvas THEN titled
        ELSE LET chartHeight == (ContentWidth * canvas.height) \div canvas.width
                 b == IF titled.y + chartHeight > PdfHeight - 20
                      THEN Flow(AddPageWithHeaderFooter(titled.pdf), ContentTop)
                      ELSE titled
             IN  Flow(Draw(b.pdf, Item("chart", b.y, b.y + chartHeight, 0)),
                      b.y + chartHeight + 15)

\* the header row of the detail table
TableHeader(fl) ==
    Flow(Draw(fl.pdf, Item("tableHeader", fl.y, fl.y + RowHeight, 0)),
         fl.y + RowHeight)

\* the rows the loop draws from y before its test yPosition > pdfHeight - 20
\* first holds
RowsThatFit(y) ==
    Cardinality({j \in 0..PdfHeight : y + j * RowHeight <= PdfHeight - 20})

\* sortedExpenses.forEach, lines 1165-1222: rows index .. n; the rows drawn
\* between two page breaks are taken together
RECURSIVE DetailRows(_, _, _)
DetailRows(fl, index, n) ==
    IF index > n THEN fl
    ELSE LET a == IF fl.y > PdfHeight - 20
                  THEN TableHeader(Flow(AddPageWithHeaderFooter(fl.pdf), ContentTop))
                  ELSE fl
             fit == RowsThatFit(a.y)
             m == IF fit < n - index + 1 THEN fit ELSE n - index + 1
             rows == [j \in 1..m |->
                        Item("row", a.y + (j - 1) * RowHeight,
                             a.y + j * RowHeight, index + j - 1)]
             drawn == [a.pdf EXCEPT !.pages[Len(a.pdf.pages)] = @ \o rows]
         IN  DetailRows(Flow(drawn, a.y + m * RowHeight), index + m, n)

\* lines 1097-1223
DetailSection(fl, n) ==
    LET a == IF fl.y > PdfHeight - 60
             THEN Flow(AddPageWithHeaderFooter(fl.pdf), ContentTop)
             ELSE fl
        heading == Flow(Draw(a.pdf, Item("detailHeading", a.y, a.y, 0)), a.y + 10)
    IN  DetailRows(TableHeader(heading), 1, n)

\* an export that never draws the placeholder
PdfPagesNoPlaceholder(options, n, canvas) ==
    LET first == Flow(AddPageWithHeaderFooter(NewPdf), ContentTop)
        s == IF options.includeSummary THEN SummarySection(first) ELSE first
        c == IF options.includeChart THEN ChartSection(s, canvas) ELSE s
        d == IF options.includeDetails THEN DetailSection(c, n) ELSE c
    IN  d.pdf.pages

\* the pages of exportToPDF, lines 970-1230, for n detail rows; the
\* placeholder is placed at pdfHeight / 2, kept in whole mm
PdfPages(options, n, canvas) ==
    LET first == Flow(AddPageWithHeaderFooter(NewPdf), ContentTop)
        s == IF options.includeSummary THEN SummarySection(first) ELSE first
        c == IF options.includeChart THEN ChartSection(s, canvas) ELSE s
        d == IF options.includeDetails THEN DetailSection(c, n) ELSE c
    IN  IF ~options.includeSummary /\ ~options.includeChart
              /\ ~options.includeDetails
        THEN Draw(d.pdf, Item("placeholder", PdfHeight \div 2,
                              PdfHeight \div 2, 0)).pages
        ELSE d.pdf.pages

\* a catch block that leaves the indicator attached
PdfCleanupNone(ind) == ind

\* the catch block of exportToPDF: the class is removed, and the first div
\* with an inline fixed position, if any, is detached
PdfCleanup(ind) == IF ind > 0 THEN ind - 1 ELSE ind

\* exportToPDF has no await: it runs to its end within the call
exportToPDF(filename, options, fail, canvas) ==
    LET none == ~options.includeSummary /\ ~options.includeChart
                /\ ~options.includeDetails
        pdf == [Doc("pdf", filename) EXCEPT
                    !.ext = ".pdf",
                    !.hasSummary = options.includeSummary,
                    !.summary = IF options.includeSummary THEN summary ELSE @,
                    !.chartTitle = options.includeChart,
                    !.chartImage = options.includeChart /\ chartMounted,
                    !.hasDetails = options.includeDetails,
                    !.details = IF options.includeDetails
                                THEN PdfExpenses(options) ELSE @,
                    !.placeholder = none,
                    !.pages = PdfPages(options,
                                       IF options.includeDetails
                                       THEN Len(PdfExpenses(options)) ELSE 0,
                                       IF chartMounted THEN canvas ELSE NoCanvas)]
        \* appendChild(loadingIndicator), classList.add('pdf-export-mode')
        attached == indicators + 1
    IN  IF fail \in {"pdfInit", "pdfSave"}
        THEN Effects(NoDownload,
                     <<"Failed to export to PDF. Please try again later.">>,
                     FALSE, NoWorkbook, PdfCleanup(attached), FALSE)
        ELSE Effects(pdf, << >>, FALSE, NoWorkbook, attached - 1, FALSE)

\* exportReportData without its write of the preferred format
exportReportData(type, options, fail, emptyRejected, canvas) ==
    LET filteredExpenses == LimitedExpenses(options)
        filename == ExportFilename
    IN  IF fail = "storage" /\ type # preferredExportFormat
        THEN Effects(NoDownload, << >>, TRUE, NoWorkbook, indicators, pdfExportMode)
        ELSE CASE type = "csv"   -> exportToCSV(filteredExpenses, filename, options, fail)
               [] type = "excel" -> exportToExcel(filteredExpenses, filename, options,
                                                  fail, emptyRejected)
               [] type = "pdf"   -> exportToPDF(filename, options, fail, canvas)
               [] OTHER -> exportToCSV(filteredExpenses, filename, options, fail)

\* lines 699-703: the state is set before the slot is written, so a
\* throwing setItem leaves the slot as it was
PreferredAfter(type) == IF type # preferredExportFormat THEN type ELSE preferredExportFormat
\* an export that never writes the slot
SavedAfterNever(type, fail) == savedFormat

SavedAfter(type, fail) ==
    IF type # preferredExportFormat /\ fail # "storage" THEN type ELSE savedFormat

ApplyEffects(r) ==
    /\ download' = r.download
    /\ alerts' = r.alerts
    /\ propagated' = r.threw
    /\ workbook' = r.workbook
    /\ indicators' = r.indicators
    /\ pdfExportMode' = r.pdfExportMode

\* handleOptionChange: one field of exportOptions is replaced
HandleOptionChange(name, value) ==
    /\ exportOptions' = [exportOptions EXCEPT ![name] = value]
    /\ NoOutput
    /\ UNCHANGED <<contextVars, scopeVars, dialogVars, formatVars, isExporting,
                   timers, domVars, csvVars, asyncVars>>

----------------------------------------------------------------------------
(* Export preprocessing: exportReportData over every fetched list *)

ExportDomain ==
    {Expense(a, "food", d, <<"a">>, NoText) : a \in Amounts, d \in Dates}

InitExport ==
    /\ expenses \in FetchedLists(ExportDomain)
    /\ store = Range(expenses)
    /\ filters = DefaultFilters
    /\ fetchedWith = DefaultFilters
    /\ deleteConfirmed = {}
    /\ budgets = << >>
    /\ budgetDocs = << >>
    /\ AsyncIdle
    /\ savedFormat = "csv"
    /\ ReportsInit
    /\ year = 2024
    /\ month = 0
    /\ OutInit
    /\ CsvIdle

\* one call of exportReportData that nothing makes fail
ExportReportData(type) ==
    /\ ApplyEffects(exportReportData(type, exportOptions, "none", TRUE,
                                     StandardCanvas))
    /\ preferredExportFormat' = PreferredAfter(type)
    /\ savedFormat' = SavedAfter(type, "none")
    /\ UNCHANGED <<contextVars, scopeVars, exportOptions, dialogVars, isExporting,
                   timers, csvVars, asyncVars>>

NextExport ==
    \/ \E rt \in ReportTypes : SetReportType(rt)
    \/ \E y \in Years : SetYear(y)
    \/ \E v \in MaxItemsValues : HandleOptionChange("maxItems", v)
    \/ \E d \in {NoDate, MkDate(2024, 0, 5)} : HandleOptionChange("dateFrom", d)
    \/ \E d \in {NoDate, MkDate(2024, 0, 31)} : HandleOptionChange("dateTo", d)
    \/ \E t \in Formats : ExportReportData(t)

SpecExport == InitExport /\ [][NextExport]_vars

\* the report-scoped subset and the export-time date bound, as sets
ScopedSet ==
    {e \in Range(expenses) :
        /\ category = "" \/ e.category = category
        /\ reportType = "monthly" =>
              getFullYear(e.date) = year /\ getMonth(e.date) = month
        /\ reportType = "yearly" => getFullYear(e.date) = year}

ExportSet ==
    {e \in ScopedSet :
        /\ exportOptions.dateFrom = NoDate \/ e.date >= exportOptions.dateFrom
        /\ exportOptions.dateTo = NoDate \/ e.date <= exportOptions.dateTo}

Min(a, b) == IF a < b THEN a ELSE b

\* C2: with maxItems a positive integer N the exported detail records are
\* min(N, size) records of the date-bounded scoped set, none older than an
\* omitted one, while the exported summary is that of the whole scoped
\* subset whatever maxItems is.
CappedDetailsMostRecent ==
    download.kind # "none" =>
        /\ (download.hasDetails /\ parseInt(exportOptions.maxItems) > 0) =>
              LET d == download.details
                  n == parseInt(exportOptions.maxItems)
              IN  /\ Len(d) = Min(n, Cardinality(ExportSet))
                  /\ IsInjective(d)
                  /\ Range(d) \subseteq ExportSet
                  /\ \A e \in Range(d) : \A o \in ExportSet \ Range(d) :
                        e.date >= o.date
        /\ download.hasSummary =>
              LET sm == download.summary
              IN  /\ sm.total = SumOver(ScopedSet)
                  /\ sm.count = Cardinality(ScopedSet)
                  /\ sm.average.num * (IF sm.count = 0 THEN 1 ELSE sm.count)
                        = sm.total * sm.average.den
                  /\ \A e \in ScopedSet :
                        sm.lowest.amount <= e.amount /\ e.amount <= sm.highest.amount
                  /\ ScopedSet # {} =>
                        sm.highest \in ScopedSet /\ sm.lowest \in ScopedSet

\* an export capped at one record out of a larger set, next to a summary
\* that counts them all
CappedDetailsWitness ==
    /\ download.kind = "pdf"
    /\ exportOptions.maxItems = "1"
    /\ Cardinality(ExportSet) >= 2
    /\ Len(download.details) = 1
    /\ download.hasSummary /\ download.summary.count = 3

----------------------------------------------------------------------------
(* Aggregation: the Reports component over every fetched list *)

InitAgg ==
    /\ expenses \in FetchedLists(AggDomain)
    /\ store = Range(expenses)
    /\ filters = DefaultFilters
    /\ fetchedWith = DefaultFilters
    /\ deleteConfirmed = {}
    /\ budgets = << >>
    /\ budgetDocs = << >>
    /\ AsyncIdle
    /\ savedFormat = NoFormat
    /\ ReportsInit
    /\ OutInit
    /\ CsvIdle

NextAgg == ScopeNext

SpecAgg == InitAgg /\ [][NextAgg]_vars

\* C1: in every report mode the bucket values of the chart data add up to
\* the sum of the amounts of the report-scoped subset (conservation).
Conservation ==
    SumSeq(chartData.data) = SumAmounts(getFilteredExpenses)

\* two records of the scoped subset fall into one bucket of the monthly chart
ConservationWitness ==
    /\ reportType = "monthly"
    /\ Len(getFilteredExpenses) >= 2
    /\ \E i \in 1..Len(chartData.data) : chartData.data[i] = 30

----------------------------------------------------------------------------
(* Reports: the export dialog and processExport *)

\* handleExportClick
handleExportClick(type) ==
    /\ currentExportType' = type
    /\ showExportOptions' = TRUE
    /\ showExportMenu' = FALSE
    /\ NoOutput
    /\ UNCHANGED <<contextVars, scopeVars, exportOptions, formatVars, isExporting,
                   timers, domVars, csvVars, asyncVars>>

\* the Quick Export button: disabled while exporting
QuickExportClick ==
    /\ ~isExporting
    /\ handleExportClick(preferredExportFormat)

\* the Export Report button: disabled while exporting
ExportMenuClick ==
    /\ ~isExporting
    /\ showExportMenu' = ~showExportMenu
    /\ NoOutput
    /\ UNCHANGED <<contextVars, scopeVars, exportOptions, showExportOptions,
                   currentExportType, formatVars, isExporting, timers, domVars,
                   csvVars, asyncVars>>

\* an entry of the export menu, rendered while the menu is shown
MenuItemClick(type) ==
    /\ showExportMenu
    /\ handleExportClick(type)

\* handleKeyDown on Ctrl+E or Cmd+E
CtrlE == handleExportClick(preferredExportFormat)

\* handleClickOutside, registered while the menu is shown
ClickOutside ==
    /\ showExportMenu
    /\ showExportMenu' = FALSE
    /\ NoOutput
    /\ UNCHANGED <<contextVars, scopeVars, exportOptions, showExportOptions,
                   currentExportType, formatVars, isExporting, timers, domVars,
                   csvVars, asyncVars>>

\* an input of the options dialog
OptionInput(name, value) ==
    /\ showExportOptions
    /\ HandleOptionChange(name, value)

\* dialog buttons that stay enabled during an export
DialogButtonsAlwaysEnabled == showExportOptions

\* Cancel and Export of the dialog are rendered while it is shown and
\* disabled while exporting
DialogButtonsEnabled == showExportOptions /\ ~isExporting

CancelClick ==
    /\ DialogButtonsEnabled
    /\ showExportOptions' = FALSE
    /\ NoOutput
    /\ UNCHANGED <<contextVars, scopeVars, exportOptions, showExportMenu,
                   currentExportType, formatVars, isExporting, timers, domVars,
                   csvVars, asyncVars>>

\* processExport without its catch: the exception escapes
ProcessExportNoCatch(r) == r

\* the catch of processExport: an exception of exportReportData becomes an
\* alert
ProcessExportCatch(r) ==
    IF r.threw
    THEN [r EXCEPT !.threw = FALSE,
                   !.alerts = Append(@, "Failed to export. Please try again.")]
    ELSE r

\* processExport; its finally block arms the timer that resets isExporting
processExport(fail, emptyRejected, canvas) ==
    IF currentExportType = NoFormat
    THEN /\ NoOutput
         /\ UNCHANGED <<contextVars, scopeVars, exportOptions, dialogVars,
                        formatVars, isExporting, timers, domVars, csvVars, asyncVars>>
    ELSE /\ showExportOptions' = FALSE
         /\ isExporting' = TRUE
         /\ ApplyEffects(ProcessExportCatch(
                exportReportData(currentExportType, exportOptions, fail,
                                 emptyRejected, canvas)))
         /\ preferredExportFormat' = PreferredAfter(currentExportType)
         /\ savedFormat' = SavedAfter(currentExportType, fail)
         /\ timers' = timers + 1
         /\ UNCHANGED <<contextVars, scopeVars, exportOptions, showExportMenu,
                        currentExportType, csvVars, asyncVars>>

ExportClick ==
    /\ DialogButtonsEnabled
    /\ \E fail \in FailPoints, emptyRejected \in BOOLEAN, canvas \in Canvases :
          processExport(fail, emptyRejected, canvas)

\* the setTimeout callback of processExport, 500 ms after the export
ExportTimer ==
    /\ timers > 0
    /\ timers' = timers - 1
    /\ isExporting' = FALSE
    /\ NoOutput
    /\ UNCHANGED <<contextVars, scopeVars, exportOptions, dialogVars, formatVars,
                   domVars, csvVars, asyncVars>>

SampleExpenses ==
    <<Expense(20, "food", MkDate(2024, 0, 31), <<"a">>, NoText),
      Expense(10, NoCategory, MkDate(2024, 0, 5), <<"a">>, NoText)>>

Init ==
    /\ expenses \in {<< >>, SampleExpenses}
    /\ store = Range(expenses)
    /\ filters = DefaultFilters
    /\ fetchedWith = DefaultFilters
    /\ deleteConfirmed = {}
    /\ budgets = << >>
    /\ budgetDocs = << >>
    /\ AsyncIdle
    /\ savedFormat \in Formats \cup {NoFormat}
    /\ ReportsInit
    /\ year = 2024
    /\ month = 0
    /\ OutInit
    /\ CsvIdle

Next ==
    \/ \E rt \in ReportTypes : SetReportType(rt)
    \/ QuickExportClick
    \/ ExportMenuClick
    \/ \E t \in Formats : MenuItemClick(t)
    \/ CtrlE
    \/ ClickOutside
    \/ \E name \in {"includeSummary", "includeChart", "includeDetails"} :
          \E v \in BOOLEAN : OptionInput(name, v)
    \/ CancelClick
    \/ ExportClick
    \/ ExportTimer

Spec == Init /\ [][Next]_vars

\* the browser runs a due timer callback
SpecLive == Spec /\ WF_vars(ExportTimer)

AllOff(options) ==
    ~options.includeSummary /\ ~options.includeChart /\ ~options.includeDetails

\* the document has content: csv text, a sheet, or something drawn on a page
DocNonEmpty(d) ==
    CASE d.kind = "csv"   -> d.hasSummary \/ d.hasDetails
      [] d.kind = "excel" -> d.sheets # << >>
      [] d.kind = "pdf"   -> d.hasSummary \/ d.chartTitle \/ d.hasDetails
                             \/ d.placeholder
      [] OTHER -> FALSE

\* C3: an export with the three include toggles off reports no failure and
\* hands a non-empty placeholder document to the download sink, in every
\* format.
AllOffPlaceholder ==
    (AllOff(exportOptions) /\ (download.kind # "none" \/ workbook.written)) =>
        /\ alerts = << >>
        /\ download.kind # "none"
        /\ DocNonEmpty(download)

\* C4: a workbook passed to writeFile has at least one sheet.
WorkbookHasSheet ==
    workbook.written => workbook.sheets # << >>

\* C8: after every export, failed or not, no loading indicator is attached
\* and the container is out of pdf-export-mode, and isExporting returns to
\* false.
IndicatorsCleanedUp ==
    /\ [](indicators = 0 /\ ~pdfExportMode)
    /\ (isExporting ~> ~isExporting)

\* a pdf export failed after the indicator was attached
IndicatorsCleanedUpWitness ==
    /\ alerts = <<"Failed to export to PDF. Please try again later.">>
    /\ isExporting
    /\ indicators = 0

\* C9: an export that delivers no document raises an alert, lets no
\* exception out of processExport, leaves the report state as it was and
\* arms the reset of isExporting.
ExportFailuresReported ==
    [][timers' > timers =>
          /\ ~propagated'
          /\ download'.kind = "none" => alerts' # << >>
          /\ UNCHANGED <<reportType, year, month, category, exportOptions>>
          /\ isExporting' /\ timers' = 1]_vars

\* a csv export threw and processExport reported it
ExportFailuresReportedWitness ==
    /\ alerts = <<"Failed to export. Please try again.">>
    /\ download.kind = "none"
    /\ isExporting

\* C10: at most one export is in flight, and one is in flight exactly while
\* isExporting is set.
SingleExportInFlight ==
    /\ timers <= 1
    /\ isExporting <=> timers = 1

\* the dialog was reopened by a trigger while an export is in flight
SingleExportInFlightWitness ==
    /\ isExporting
    /\ showExportOptions
    /\ currentExportType # NoFormat

----------------------------------------------------------------------------
(* Delimited text: escapeCsvValue and the rows of generateCSVData *)

COMMA   == ","
QUOTE   == "\""
NEWLINE == "\n"
CsvChars == {"a", COMMA, QUOTE, NEWLINE}

Texts(n) == UNION {[1..k -> CsvChars] : k \in 0..n}

\* stringValue.replace(/"/g, '""')
RECURSIVE DoubleQuotes(_)
DoubleQuotes(v) ==
    IF v = << >> THEN << >>
    ELSE IF Head(v) = QUOTE THEN <<QUOTE, QUOTE>> \o DoubleQuotes(Tail(v))
    ELSE <<Head(v)>> \o DoubleQuotes(Tail(v))

Includes(v, c) == \E i \in 1..Len(v) : v[i] = c

\* escapeCsvValue with the test for '\n' left out
escapeCsvValueNoNewline(value) ==
    IF Includes(value, COMMA) \/ Includes(value, QUOTE)
    THEN <<QUOTE>> \o DoubleQuotes(value) \o <<QUOTE>>
    ELSE value

\* escapeCsvValue; null and undefined are the empty text
escapeCsvValue(value) ==
    IF Includes(value, COMMA) \/ Includes(value, QUOTE) \/ Includes(value, NEWLINE)
    THEN <<QUOTE>> \o DoubleQuotes(value) \o <<QUOTE>>
    ELSE value

RECURSIVE Join(_, _)
Join(fieldSeq, sep) ==
    IF fieldSeq = << >> THEN << >>
    ELSE IF Len(fieldSeq) = 1 THEN fieldSeq[1]
    ELSE fieldSeq[1] \o <<sep>> \o Join(Tail(fieldSeq), sep)

\* the columns of one row of generateCSVData; date, category name, amount
\* and the recurring flag are one-character stand-ins without special
\* characters
RowColumns(title, notes) ==
    << <<"d">>, title, <<"c">>, <<"1">>, notes, <<"N">> >>

\* row.join(',') + '\n'
CsvRow(title, notes) ==
    Join(<< <<"d">>, escapeCsvValue(title), escapeCsvValue(<<"c">>), <<"1">>,
            escapeCsvValue(notes), <<"N">> >>, COMMA) \o <<NEWLINE>>

\* a reader of one record by the standard rules: a field that opens with a
\* quote runs to its closing quote, a doubled quote inside it is one quote;
\* a comma ends a field and a newline outside quotes ends the record
RECURSIVE ParseRecord(_, _, _, _)
ParseRecord(s, cur, fields, mode) ==
    IF s = << >> THEN [fields |-> Append(fields, cur), rest |-> << >>]
    ELSE LET c == Head(s)
             t == Tail(s)
         IN  CASE mode = "quoted" ->
                    IF c = QUOTE THEN ParseRecord(t, cur, fields, "closing")
                    ELSE ParseRecord(t, Append(cur, c), fields, "quoted")
               [] mode = "start" /\ c = QUOTE ->
                    ParseRecord(t, cur, fields, "quoted")
               [] mode = "closing" /\ c = QUOTE ->
                    ParseRecord(t, Append(cur, QUOTE), fields, "quoted")
               [] mode # "quoted" /\ c = COMMA ->
                    ParseRecord(t, << >>, Append(fields, cur), "start")
               [] mode # "quoted" /\ c = NEWLINE ->
                    [fields |-> Append(fields, cur), rest |-> t]
               [] OTHER ->
                    ParseRecord(t, Append(cur, c), fields, "plain")

\* the title of the documented example: Lunch, "quick"
ExampleTitle ==
    <<"L", "u", "n", "c", "h", COMMA, " ", QUOTE, "q", "u", "i", "c", "k", QUOTE>>
ExampleEmitted ==
    <<QUOTE, "L", "u", "n", "c", "h", COMMA, " ", QUOTE, QUOTE, "q", "u", "i",
      "c", "k", QUOTE, QUOTE, QUOTE>>

InitCsv ==
    /\ csvFields \in
          {[title |-> t, notes |-> n] : t \in Texts(MaxLen), n \in Texts(MaxLen)}
          \cup {[title |-> ExampleTitle, notes |-> << >>]}
    /\ csvEmitted = << >>
    /\ csvParsed = << >>
    /\ csvPhase = "input"
    /\ ContextInit
    /\ savedFormat = NoFormat
    /\ ReportsInit
    /\ year = 2024
    /\ month = 0
    /\ OutInit

\* generateCSVData emits the row of one expense
GenerateCSVData ==
    /\ csvPhase = "input"
    /\ csvEmitted' = CsvRow(csvFields.title, csvFields.notes)
    /\ csvPhase' = "emitted"
    /\ UNCHANGED <<contextVars, scopeVars, exportOptions, dialogVars, formatVars,
                   isExporting, timers, domVars, outVars, csvFields, csvParsed,
                   asyncVars>>

\* a reader of the downloaded file parses the row
ReadBack ==
    /\ csvPhase = "emitted"
    /\ csvParsed' = ParseRecord(csvEmitted, << >>, << >>, "start")
    /\ csvPhase' = "parsed"
    /\ UNCHANGED <<contextVars, scopeVars, exportOptions, dialogVars, formatVars,
                   isExporting, timers, domVars, outVars, csvFields, csvEmitted,
                   asyncVars>>

NextCsv == GenerateCSVData \/ ReadBack

SpecCsv == InitCsv /\ [][NextCsv]_vars

NeedsQuoting(v) ==
    \E i \in 1..Len(v) : v[i] \in {COMMA, QUOTE, NEWLINE}

CountQuotes(v) == Cardinality({i \in 1..Len(v) : v[i] = QUOTE})

\* C5: a value with a comma, a quote or a newline is emitted between quotes
\* with its quotes doubled, any other value unchanged, and reading the
\* emitted row back by the standard rules yields the original values.
CsvRoundTrip ==
    /\ csvPhase = "parsed" =>
          /\ csvParsed.fields = RowColumns(csvFields.title, csvFields.notes)
          /\ csvParsed.rest = << >>
    /\ \A v \in {csvFields.title, csvFields.notes} :
          LET e == escapeCsvValue(v)
          IN  IF NeedsQuoting(v)
              THEN /\ Len(e) = Len(v) + CountQuotes(v) + 2
                   /\ e[1] = QUOTE /\ e[Len(e)] = QUOTE
                   /\ CountQuotes(e) = 2 * CountQuotes(v) + 2
              ELSE e = v
    /\ csvFields.title = ExampleTitle => escapeCsvValue(csvFields.title) = ExampleEmitted

\* a title with a comma and a quote, notes with a newline, read back
CsvRoundTripWitness ==
    /\ csvPhase = "parsed"
    /\ Includes(csvFields.title, COMMA) /\ Includes(csvFields.title, QUOTE)
    /\ Includes(csvFields.notes, NEWLINE)
    /\ csvParsed.fields[2] = csvFields.title

----------------------------------------------------------------------------
(* Expense context: fetchExpenses and the filter set *)

\* String.prototype.toLowerCase on the characters of the model
LowerChar(c) == IF c = "A" THEN "a" ELSE c
toLowerCase(t) == [i \in 1..Len(t) |-> LowerChar(t[i])]

\* String.prototype.includes
includes(t, term) ==
    \E i \in 0..(Len(t) - Len(term)) :
        \A j \in 1..Len(term) : t[i + j] = term[j]

\* a category clause that also keeps only the documents of the latest date
QueryNewestOfCategory(docs, f) ==
    {e \in docs :
        /\ (f.startDate # NoDate /\ f.endDate # NoDate) =>
              (e.date >= f.startDate /\ e.date <= f.endDate)
        /\ f.category # "" =>
              (e.category = f.category /\ \A o \in docs : o.date <= e.date)}

\* the server-side query of fetchExpenses, lines 70-86: the date range is
\* added only when startDate and endDate are both set
Query(docs, f) ==
    {e \in docs :
        /\ (f.startDate # NoDate /\ f.endDate # NoDate) =>
              (e.date >= f.startDate /\ e.date <= f.endDate)
        /\ f.category # "" => e.category = f.category}

\* an amount filter that keeps what lies above the lowest amount present
ClientFilteredAboveLowest(docs, f) ==
    IF f.minAmount # NoAmount
    THEN {e \in docs : \E o \in docs : o.amount < e.amount}
    ELSE docs

\* the client-side filters of fetchExpenses, lines 100-117
ClientFiltered(docs, f) ==
    LET a == IF f.minAmount # NoAmount
             THEN {e \in docs : e.amount >= f.minAmount} ELSE docs
        b == IF f.maxAmount # NoAmount
             THEN {e \in a : e.amount <= f.maxAmount} ELSE a
    IN  IF f.searchTerm # NoText
        THEN LET term == toLowerCase(f.searchTerm)
             IN  {e \in b : \/ includes(toLowerCase(e.title), term)
                            \/ (e.notes # NoText
                                /\ includes(toLowerCase(e.notes), term))}
        ELSE b

\* the orders in which the snapshot can list a set of documents:
\* orderBy('date', 'desc'), equal dates in any order
Orderings(S) ==
    {s \in [1..Cardinality(S) -> S] : IsInjective(s) /\ IsSortedDesc(s)}

\* one run of fetchExpenses that reads the filter set f and succeeds; a
\* confirmed deletion has then seen its refresh
FetchWith(f) ==
    /\ expenses' \in Orderings(ClientFiltered(Query(store, f), f))
    /\ fetchedWith' = f
    /\ deleteConfirmed' = {[d EXCEPT !.refreshed = TRUE] : d \in deleteConfirmed}

\* updateFilters: fetchExpenses is called in the render that still holds
\* the filter set as it was before setFilters
UpdateFilters(name, value) ==
    /\ filters' = [filters EXCEPT ![name] = value]
    /\ FetchWith(filters)
    /\ UNCHANGED <<store, budgets, budgetDocs, scopeVars, exportOptions, dialogVars, formatVars,
                   isExporting, timers, domVars, outVars, csvVars, asyncVars>>

\* resetFilters
ResetFilters ==
    /\ filters' = DefaultFilters
    /\ FetchWith(filters)
    /\ UNCHANGED <<store, budgets, budgetDocs, scopeVars, exportOptions, dialogVars, formatVars,
                   isExporting, timers, domVars, outVars, csvVars, asyncVars>>

\* deleteExpense of the context: no component calls it
DeleteExpense(e) ==
    /\ store' = store \ {e}
    /\ expenses' \in Orderings(ClientFiltered(Query(store \ {e}, filters), filters))
    /\ fetchedWith' = filters
    /\ UNCHANGED <<filters, deleteConfirmed, budgets, budgetDocs, scopeVars, exportOptions, dialogVars,
                   formatVars, isExporting, timers, domVars, outVars, csvVars, asyncVars>>

\* App.handleDeleteExpense, reached from the delete button of a listed
\* expense: the body of the confirmed branch is empty
HandleDeleteExpense(e, confirmed) ==
    /\ e \in Range(expenses)
    /\ deleteConfirmed' =
          IF confirmed
          THEN deleteConfirmed \cup {[expense |-> e, refreshed |-> FALSE]}
          ELSE deleteConfirmed
    /\ UNCHANGED <<store, expenses, filters, fetchedWith, budgets, budgetDocs, scopeVars,
                   exportOptions,
                   dialogVars, formatVars, isExporting, timers, domVars, outVars,
                   csvVars, asyncVars>>

TitlesAndNotes ==
    {<< <<"A">>, NoText >>, << <<"b">>, <<"a">> >>, << <<"b">>, NoText >>}

\* every amount, category and date under one text, and every text under one
\* amount, category and date
FilterDomain ==
    {Expense(a, c, d, <<"b">>, NoText) :
        a \in Amounts, c \in CategoryIds,
        d \in {MkDate(2024, 0, 5), MkDate(2024, 0, 31)}}
    \cup {Expense(10, "food", MkDate(2024, 0, 5), tn[1], tn[2]) :
            tn \in TitlesAndNotes}

Stores(D) == {S \in SUBSET D : Cardinality(S) <= MaxStore}

\* the provider after the first fetch of a signed-in user
InitContext(D) ==
    /\ store \in Stores(D)
    /\ filters = DefaultFilters
    /\ fetchedWith = DefaultFilters
    /\ expenses \in Orderings(store)
    /\ deleteConfirmed = {}
    /\ budgets = << >>
    /\ budgetDocs = << >>
    /\ AsyncIdle
    /\ savedFormat = NoFormat
    /\ ReportsInit
    /\ year = 2024
    /\ month = 0
    /\ OutInit
    /\ CsvIdle

InitFilter == InitContext(FilterDomain)

NextFilter ==
    \/ \E d \in {NoDate, MkDate(2024, 0, 31)} : UpdateFilters("startDate", d)
    \/ \E d \in {NoDate, MkDate(2024, 0, 5)} : UpdateFilters("endDate", d)
    \/ \E c \in {"", "food"} : UpdateFilters("category", c)
    \/ \E a \in {NoAmount, 20} : UpdateFilters("minAmount", a)
    \/ \E a \in {NoAmount, 10} : UpdateFilters("maxAmount", a)
    \/ \E t \in {NoText, <<"A">>} : UpdateFilters("searchTerm", t)
    \/ ResetFilters

SpecFilter == InitFilter /\ [][NextFilter]_vars

\* e meets every constraint that the filter set f holds
Satisfies(e, f) ==
    /\ f.startDate # NoDate => e.date >= f.startDate
    /\ f.endDate # NoDate => e.date <= f.endDate
    /\ f.category # "" => e.category = f.category
    /\ f.minAmount # NoAmount => e.amount >= f.minAmount
    /\ f.maxAmount # NoAmount => e.amount <= f.maxAmount
    /\ f.searchTerm # NoText =>
          \/ includes(toLowerCase(e.title), toLowerCase(f.searchTerm))
          \/ includes(toLowerCase(e.notes), toLowerCase(f.searchTerm))

\* C6: the fetched expenses are exactly the stored records that meet every
\* constraint present in the filter set the fetch read, each bound on its
\* own.
FilterExact ==
    Range(expenses) = {e \in store : Satisfies(e, fetchedWith)}

----------------------------------------------------------------------------
(* Expense list: deletion *)

DeleteDomain ==
    {Expense(a, "food", d, <<"A">>, NoText) :
        a \in Amounts, d \in {MkDate(2024, 0, 5), MkDate(2024, 0, 31)}}

InitDelete == InitContext(DeleteDomain)

NextDelete ==
    \/ \E e \in DeleteDomain : \E confirmed \in BOOLEAN :
          HandleDeleteExpense(e, confirmed)
    \/ \E t \in {NoText, <<"A">>} : UpdateFilters("searchTerm", t)
    \/ ResetFilters

SpecDelete == InitDelete /\ [][NextDelete]_vars

\* C7: an expense whose deletion was confirmed is gone from the store and,
\* once the next refresh has completed, from the expenses state.
ConfirmedDeleteRemoves ==
    \A d \in deleteConfirmed :
        /\ d.expense \notin store
        /\ d.refreshed => d.expense \notin Range(expenses)

----------------------------------------------------------------------------
(* The remembered export format across sessions *)

\* the page is loaded again: Reports is constructed anew, its mount effect
\* reads the slot (lines 222-227), pending timers of the old page are gone;
\* the slot and the stored expenses survive
Reload ==
    /\ reportType' = "monthly"
    /\ category' = ""
    /\ exportOptions' = DefaultExportOptions
    /\ showExportMenu' = FALSE
    /\ showExportOptions' = FALSE
    /\ currentExportType' = NoFormat
    /\ preferredExportFormat' =
          IF savedFormat # NoFormat THEN savedFormat ELSE "csv"
    /\ isExporting' = FALSE
    /\ timers' = 0
    /\ indicators' = 0
    /\ pdfExportMode' = FALSE
    /\ NoOutput
    /\ workbook' = NoWorkbook
    /\ UNCHANGED <<contextVars, year, month, savedFormat, csvVars, asyncVars>>

\* the first session: the slot is empty
InitPref ==
    /\ Init
    /\ savedFormat = NoFormat

NextPref ==
    \/ Next
    \/ Reload

SpecPref == InitPref /\ [][NextPref]_vars

\* a step of processExport that handed a document to the sink
ExportCompleted == timers' > timers /\ download' # NoDownload

\* C11: an export completed in a format other than the remembered one
\* leaves that format in the slot and in the preferredExportFormat state;
\* an export in the remembered format and every step that is not an export
\* leave the slot as it is; after a reload the state holds the slot's value,
\* if any; Quick Export and Ctrl+E open the dialog with the remembered
\* format, and an export step changes no other state that an export reads.
PreferredFormatRemembered ==
    [][/\ (ExportCompleted /\ currentExportType # preferredExportFormat) =>
            /\ savedFormat' = currentExportType
            /\ preferredExportFormat' = currentExportType
       /\ (timers' > timers /\ currentExportType = preferredExportFormat) =>
            UNCHANGED <<savedFormat, preferredExportFormat>>
       /\ ~(timers' > timers) => savedFormat' = savedFormat
       /\ (currentExportType # NoFormat /\ currentExportType' = NoFormat) =>
            (savedFormat # NoFormat => preferredExportFormat' = savedFormat)
       /\ (~showExportOptions /\ showExportOptions' /\ ~showExportMenu) =>
            currentExportType' = preferredExportFormat
       /\ timers' > timers =>
            UNCHANGED <<contextVars, scopeVars, exportOptions,
                        currentExportType, domVars>>
      ]_vars

\* a pdf export in the first session wrote the slot, and the state follows
PreferredFormatRememberedWitness ==
    /\ download.kind = "pdf"
    /\ savedFormat = "pdf"
    /\ preferredExportFormat = "pdf"

----------------------------------------------------------------------------
(* Export preprocessing: the three formats side by side *)

\* C12: for the same report state and export options the rows of the pdf
\* detail table are the records handed to exportToCSV and exportToExcel, in
\* the same order; with maxItems 'all' that order is newest first; a
\* document of any format that carries details carries exactly that sequence.
SameDetailsInAllFormats ==
    /\ PdfExpenses(exportOptions) = LimitedExpenses(exportOptions)
    /\ exportOptions.maxItems = "all" =>
          /\ IsSortedDesc(PdfExpenses(exportOptions))
          /\ IsSortedDesc(LimitedExpenses(exportOptions))
    /\ (download.kind # "none" /\ download.hasDetails) =>
          /\ download.details = LimitedExpenses(exportOptions)
          /\ download.details = PdfExpenses(exportOptions)

\* a pdf with every record, two of them of the same day, a third of
\* another day
SameDetailsInAllFormatsWitness ==
    /\ download.kind = "pdf"
    /\ download.hasDetails
    /\ exportOptions.maxItems = "all"
    /\ Len(download.details) = 3
    /\ \E i \in 1..2 :
          /\ download.details[i].date = download.details[i + 1].date
          /\ download.details[i].amount < download.details[i + 1].amount
    /\ \E i \in 1..2 : download.details[i].date > download.details[i + 1].date

\* C13: the exported detail records all belong to the report-scoped subset
\* and lie within the export-time date bound, both ends inclusive; without a
\* cap they are exactly the scoped records within the bound, each once; an
\* absent bound excludes nothing.
DateBoundComposed ==
    (download.kind # "none" /\ download.hasDetails) =>
        /\ Range(download.details) \subseteq ExportSet
        /\ ExportSet \subseteq ScopedSet
        /\ IsInjective(download.details)
        /\ parseInt(exportOptions.maxItems) = NaN =>
              Range(download.details) = ExportSet
        /\ (exportOptions.dateFrom = NoDate /\ exportOptions.dateTo = NoDate) =>
              ExportSet = ScopedSet

\* both bounds are given; the yearly scope holds a record on the dateTo day,
\* which is exported, and a later one, which is not
DateBoundComposedWitness ==
    /\ download.kind = "csv"
    /\ download.hasDetails
    /\ reportType = "yearly"
    /\ exportOptions.dateFrom # NoDate
    /\ exportOptions.dateTo # NoDate
    /\ exportOptions.maxItems = "all"
    /\ \E e \in Range(download.details) : e.date = exportOptions.dateTo
    /\ \E e \in ScopedSet : e.date > exportOptions.dateTo
    /\ Range(expenses) # ScopedSet

----------------------------------------------------------------------------
(* Expense context: budgets and their status *)

MaxBudgets == 2

Budget(c, a) == [category |-> c, amount |-> a]

\* the key of an expense in byCategory: expense.category || 'uncategorized'
StatsKey(e) == IF e.category = "" THEN "uncategorized" ELSE e.category

\* getExpenseStats over the expenses state
getExpenseStats ==
    IF Len(expenses) = 0
    THEN [total |-> 0, byCategory |-> << >>]
    ELSE [total |-> SumAmounts(expenses),
          byCategory |->
              [k \in {StatsKey(e) : e \in Range(expenses)} |->
                  SumAmounts(SelectSeqBy(expenses,
                      {e \in Range(expenses) : StatsKey(e) = k}))]]

\* a lookup that takes the grand total
SpentOfTotal(stats, budget) == stats.total

\* stats.byCategory[budget.category] || 0
SpentOf(stats, budget) ==
    IF budget.category \in DOMAIN stats.byCategory
          /\ stats.byCategory[budget.category] # 0
    THEN stats.byCategory[budget.category]
    ELSE 0

\* getBudgetStatus over the budgets state; percentage is the exact quotient
\* (spent / amount) * 100
getBudgetStatus ==
    LET stats == getExpenseStats
    IN  [i \in 1..Len(budgets) |->
            LET budget == budgets[i]
                spent == SpentOf(stats, budget)
                remaining == budget.amount - spent
            IN  [category |-> budget.category,
                 amount |-> budget.amount,
                 spent |-> spent,
                 remaining |-> remaining,
                 percentage |-> IF budget.amount > 0
                                THEN [num |-> spent * 100, den |-> budget.amount]
                                ELSE [num |-> 0, den |-> 1],
                 isOverBudget |-> remaining < 0]]

\* the status list as BudgetList and Dashboard compute it in their render
budgetStatus == getBudgetStatus

BudgetAmounts == {15, 100}

\* documents of the budget collection and of the expense collection
BudgetExpenseDomain ==
    {Expense(a, c, MkDate(2024, 0, 5), <<"a">>, NoText) :
        a \in Amounts, c \in CategoryIds \cup {NoCategory}}

\* s with x put at position i
InsertAt(s, i, x) == SubSeq(s, 1, i - 1) \o <<x>> \o SubSeq(s, i, Len(s))
RemoveAt(s, i) == SubSeq(s, 1, i - 1) \o SubSeq(s, i + 1, Len(s))

BudgetFrame ==
    UNCHANGED <<scopeVars, exportOptions, dialogVars, formatVars, isExporting,
                timers, domVars, outVars, csvVars, asyncVars>>

\* addBudget followed by its fetchBudgets: the new document takes the
\* place its generated id gives it
AddBudget(c, a) ==
    /\ Len(budgets) < MaxBudgets
    /\ a > 0
    /\ \E i \in 1..(Len(budgets) + 1) :
          budgets' = InsertAt(budgets, i, Budget(c, a))
    /\ budgetDocs' = budgets'
    /\ UNCHANGED <<store, expenses, filters, fetchedWith, deleteConfirmed>>
    /\ BudgetFrame

\* updateBudget followed by its fetchBudgets
UpdateBudget(i, c, a) ==
    /\ i \in 1..Len(budgets)
    /\ a > 0
    /\ budgets' = [budgets EXCEPT ![i] = Budget(c, a)]
    /\ budgetDocs' = budgets'
    /\ UNCHANGED <<store, expenses, filters, fetchedWith, deleteConfirmed>>
    /\ BudgetFrame

\* deleteBudget followed by its fetchBudgets
DeleteBudget(i) ==
    /\ i \in 1..Len(budgets)
    /\ budgets' = RemoveAt(budgets, i)
    /\ budgetDocs' = budgets'
    /\ UNCHANGED <<store, expenses, filters, fetchedWith, deleteConfirmed>>
    /\ BudgetFrame

\* addExpense followed by its fetchExpenses
AddExpense(e) ==
    /\ e \notin store
    /\ Cardinality(store) < MaxExpenses
    /\ store' = store \cup {e}
    /\ expenses' \in
          Orderings(ClientFiltered(Query(store \cup {e}, filters), filters))
    /\ fetchedWith' = filters
    /\ UNCHANGED <<filters, deleteConfirmed, budgets, budgetDocs>>
    /\ BudgetFrame

\* the provider of a signed-in user whose budget collection is empty or
\* holds one document with amount 0, written by another client
InitBudget ==
    /\ store = {}
    /\ expenses = << >>
    /\ filters = DefaultFilters
    /\ fetchedWith = DefaultFilters
    /\ deleteConfirmed = {}
    /\ budgets \in {<< >>, <<Budget("food", 0)>>}
    /\ budgetDocs = budgets
    /\ AsyncIdle
    /\ savedFormat = NoFormat
    /\ ReportsInit
    /\ year = 2024
    /\ month = 0
    /\ OutInit
    /\ CsvIdle

NextBudget ==
    \/ \E c \in CategoryIds, a \in BudgetAmounts : AddBudget(c, a)
    \/ \E i \in 1..MaxBudgets, c \in CategoryIds, a \in BudgetAmounts :
          UpdateBudget(i, c, a)
    \/ \E i \in 1..MaxBudgets : DeleteBudget(i)
    \/ \E e \in BudgetExpenseDomain : AddExpense(e)

SpecBudget == InitBudget /\ [][NextBudget]_vars

\* C14: the status list has one entry per budget, in order; the entry of a
\* budget has spent = the sum of the amounts of the current expenses of the
\* budget's category, remaining = amount - spent, percentage =
\* 100 * spent / amount, or 0 for amount 0, and isOverBudget = remaining < 0.
BudgetStatusCurrent ==
    /\ Len(budgetStatus) = Len(budgets)
    /\ \A i \in 1..Len(budgets) :
          LET b == budgets[i]
              st == budgetStatus[i]
              spent == SumOver({e \in Range(expenses) : e.category = b.category})
          IN  /\ st.category = b.category /\ st.amount = b.amount
              /\ st.spent = spent
              /\ st.remaining = b.amount - spent
              /\ b.amount = 0 => st.percentage.num = 0
              /\ b.amount # 0 =>
                    st.percentage.num * b.amount = 100 * spent * st.percentage.den
              /\ st.isOverBudget <=> (b.amount - spent < 0)

\* a food budget of 15 with 30 spent on food next to a budget of amount 0,
\* while an expense of another category is in the list
BudgetStatusCurrentWitness ==
    /\ Len(budgets) = 2
    /\ \E i \in 1..2 :
          /\ budgets[i] = Budget("food", 15)
          /\ budgetStatus[i].spent = 30
          /\ budgetStatus[i].isOverBudget
          /\ budgetStatus[i].percentage = [num |-> 3000, den |-> 15]
    /\ \E i \in 1..2 : budgets[i].amount = 0
    /\ \E e \in Range(expenses) : e.category # "food"

----------------------------------------------------------------------------
(* Report summary *)

\* C15: for a non-empty scoped subset, highest is the first record of the
\* subset, in its iteration order, that has the maximum amount, and lowest
\* the first that has the minimum amount.
ExtremesFirstWins ==
    LET f == getFilteredExpenses
    IN  Len(f) > 0 =>
          /\ \E i \in 1..Len(f) :
                /\ f[i] = summary.highest
                /\ \A j \in 1..Len(f) : f[j].amount <= f[i].amount
                /\ \A j \in 1..(i - 1) : f[j].amount < f[i].amount
          /\ \E i \in 1..Len(f) :
                /\ f[i] = summary.lowest
                /\ \A j \in 1..Len(f) : f[j].amount >= f[i].amount
                /\ \A j \in 1..(i - 1) : f[j].amount > f[i].amount

\* the maximum amount occurs twice in the subset, after a smaller amount,
\* and highest is the earlier of the two
ExtremesFirstWinsWitness ==
    LET f == getFilteredExpenses
    IN  /\ Len(f) = 3
        /\ f[1].amount = 10 /\ f[2].amount = 20 /\ f[3].amount = 20
        /\ summary.highest = f[2]
        /\ summary.lowest = f[1]

\* C16: total is the sum of the amounts of the report-scoped subset, count
\* its size and average total / count; for an empty subset total, average,
\* count and the amounts of highest and lowest are all 0.
SummaryOfScopedSubset ==
    /\ summary.total = SumOver(ScopedSet)
    /\ summary.count = Cardinality(ScopedSet)
    /\ ScopedSet # {} =>
          /\ summary.average.den # 0
          /\ summary.average.num * summary.count
                = summary.total * summary.average.den
    /\ ScopedSet = {} =>
          /\ summary.total = 0
          /\ summary.average.num = 0
          /\ summary.count = 0
          /\ summary.highest.amount = 0
          /\ summary.lowest.amount = 0

\* two of three fetched records are in scope; their average is 15
SummaryOfScopedSubsetWitness ==
    /\ Len(expenses) = 3
    /\ summary.count = 2
    /\ summary.total = 30
    /\ summary.average = [num |-> 30, den |-> 2]

----------------------------------------------------------------------------
(* Charts: buckets of the monthly and the category report *)

\* C17: the monthly chart has the labels 1..N in ascending order, N being
\* 31 for January, 29 for February 2024 and 28 for February 2023; the value
\* of day d is the sum of the amounts of the scoped records of that day, 0
\* where there is none.
MonthlyBuckets ==
    reportType = "monthly" =>
        /\ Len(chartData.labels) =
              (IF month = 0 THEN 31
               ELSE IF month = 1 /\ year = 2024 THEN 29
               ELSE IF month = 1 /\ year = 2023 THEN 28
               ELSE Len(chartData.labels))
        /\ month \in {0, 1} /\ year \in {2023, 2024}
        /\ Len(chartData.data) = Len(chartData.labels)
        /\ \A i \in 1..Len(chartData.labels) :
              /\ chartData.labels[i] = i
              /\ chartData.data[i] =
                    SumOver({e \in ScopedSet : getDate(e.date) = i})

\* February 2024: 29 buckets, the expense of the 29th in the last one and
\* nothing on the 1st
MonthlyBucketsWitness ==
    /\ reportType = "monthly"
    /\ year = 2024 /\ month = 1
    /\ Len(chartData.labels) = 29
    /\ chartData.data[29] > 0
    /\ chartData.data[1] = 0

\* C18: the category chart has one bucket for each category value of the
\* scoped subset, a missing category counting as 'uncategorized', and none
\* for a category without a record; the value at position i is the sum of
\* the amounts of the records of the category whose label is at position i.
CategoryBuckets ==
    reportType = "category" =>
        LET present == {StatsKey(e) : e \in ScopedSet}
        IN  /\ Len(chartData.labels) = Cardinality(present)
            /\ Len(chartData.data) = Len(chartData.labels)
            /\ \A i, j \in 1..Len(chartData.labels) :
                  i # j => chartData.labels[i] # chartData.labels[j]
            /\ \A i \in 1..Len(chartData.labels) :
                  \E k \in present :
                      /\ chartData.labels[i] = CategoryLabel(k)
                      /\ chartData.data[i] =
                            SumOver({e \in ScopedSet : StatsKey(e) = k})

\* an uncategorized record comes first, two food records follow: two
\* buckets, none for transportation
CategoryBucketsWitness ==
    /\ reportType = "category"
    /\ category = ""
    /\ chartData.labels = <<"Uncategorized", "Food & Dining">>
    /\ chartData.data = <<10, 30>>

----------------------------------------------------------------------------
(* Filtering as a function of a record collection *)

\* what fetchExpenses keeps of a collection under the filter set f
ApplyFilters(docs, f) == ClientFiltered(Query(docs, f), f)

\* C19: for the stored collection and the filter set of the state (every
\* filter set of the form is reached with every collection), filtering the
\* result of fetchExpenses' filters again with the same filter set changes
\* nothing; the fetched list is a fixed point of the filter set it was
\* fetched with; the same holds of getFilteredExpenses for every report
\* scope.
FilterIdempotent ==
    /\ ApplyFilters(ApplyFilters(store, filters), filters)
          = ApplyFilters(store, filters)
    /\ ApplyFilters(Range(expenses), fetchedWith) = Range(expenses)
    /\ \A rt \in ReportTypes, y \in Years, m \in Months,
          c \in CategoryIds \cup {""} :
          FilteredBy(FilteredBy(expenses, rt, y, m, c), rt, y, m, c)
             = FilteredBy(expenses, rt, y, m, c)

\* a fetch with a lower amount bound kept one of two stored documents
FilterIdempotentWitness ==
    /\ Cardinality(store) = 2
    /\ filters.minAmount = 20
    /\ fetchedWith.minAmount = 20
    /\ fetchedWith.searchTerm = NoText
    /\ Len(expenses) = 1

\* the predicate dimensions of the filter set
Dimensions ==
    {{"startDate", "endDate"}, {"category"}, {"minAmount", "maxAmount"},
     {"searchTerm"}}

\* the filter set that holds the fields flds of f and nothing else
Only(f, flds) ==
    [k \in DOMAIN f |-> IF k \in flds THEN f[k] ELSE DefaultFilters[k]]

\* C20: for the stored collection, the filter set of the state (every
\* filter set of the form is reached with every collection) and every two
\* dimensions among date, category, amount and search, filtering by one and
\* then by the other gives the same subset in either order, which is also
\* the subset that both together give.
FilterOrderIndependent ==
    \A d1, d2 \in Dimensions :
        d1 # d2 =>
          LET a == ApplyFilters(ApplyFilters(store, Only(filters, d1)),
                                Only(filters, d2))
              b == ApplyFilters(ApplyFilters(store, Only(filters, d2)),
                                Only(filters, d1))
          IN  /\ a = b
              /\ a = ApplyFilters(store, Only(filters, d1 \cup d2))

\* category and upper amount bound are both set; one stored document
\* fails the category only, the other is the fetched one
FilterOrderIndependentWitness ==
    /\ Cardinality(store) = 2
    /\ filters.category = "food" /\ fetchedWith.category = "food"
    /\ filters.maxAmount = 10 /\ fetchedWith.maxAmount = 10
    /\ Len(expenses) = 1
    /\ \E e \in store : e.category # "food" /\ e.amount = 10

----------------------------------------------------------------------------
(* Export filename *)

\* the report of a signed-in user under every scope the controls offer
InitName == Init

NextName ==
    \/ ScopeNext
    \/ \E v \in MaxItemsValues : HandleOptionChange("maxItems", v)
    \/ \E t \in Formats : ExportReportData(t)

SpecName == InitName /\ [][NextName]_vars

\* C21: the filename handed to the sink is expense-report followed by the
\* lower-case month name and the year for a monthly report, by the year for
\* a yearly report, and for a category report by the selected category's
\* display name in lower case with each whitespace run turned into a hyphen
\* (expense-report-by-category when none is selected); nothing else of the
\* state enters it; the extension is .csv, .xlsx or .pdf by format.
FilenameFromScope ==
    download.kind # "none" =>
        /\ download.filename =
              (CASE reportType = "monthly" ->
                      <<"expense-report",
                        IF month = 0 THEN "january" ELSE "february", year>>
                 [] reportType = "yearly" -> <<"expense-report", year>>
                 [] reportType = "category" /\ category = "food" ->
                      <<"expense-report",
                        <<"f", "o", "o", "d", "-", "&", "-",
                          "d", "i", "n", "i", "n", "g">> >>
                 [] reportType = "category" /\ category = "transportation" ->
                      <<"expense-report",
                        <<"t", "r", "a", "n", "s", "p", "o", "r", "t", "a",
                          "t", "i", "o", "n">> >>
                 [] OTHER -> <<"expense-report-by-category">>)
        /\ download.ext = (CASE download.kind = "csv" -> ".csv"
                             [] download.kind = "excel" -> ".xlsx"
                             [] OTHER -> ".pdf")

\* a pdf of the category report of Food & Dining, capped at one record
FilenameFromScopeWitness ==
    /\ download.kind = "pdf"
    /\ reportType = "category"
    /\ category = "food"
    /\ exportOptions.maxItems = "1"
    /\ Len(download.filename) = 2
    /\ download.ext = ".pdf"

----------------------------------------------------------------------------
(* exportToPDF over long detail tables *)

MaxRows == 40

\* a fetched list of n records of one day
LongList(n) ==
    [i \in 1..n |-> Expense(i, "food", MkDate(2024, 0, 5), <<"a">>, NoText)]

InitPdf ==
    /\ \E n \in 0..MaxRows : expenses = LongList(n)
    /\ store = Range(expenses)
    /\ filters = DefaultFilters
    /\ fetchedWith = DefaultFilters
    /\ deleteConfirmed = {}
    /\ budgets = << >>
    /\ budgetDocs = << >>
    /\ AsyncIdle
    /\ savedFormat = "pdf"
    /\ ReportsInit
    /\ year = 2024
    /\ month = 0
    /\ OutInit
    /\ CsvIdle

\* one call of exportReportData for a pdf, nothing failing, with the canvas
\* the page shows
ExportToPDF(canvas) ==
    /\ ApplyEffects(exportReportData("pdf", exportOptions, "none", TRUE, canvas))
    /\ preferredExportFormat' = PreferredAfter("pdf")
    /\ savedFormat' = SavedAfter("pdf", "none")
    /\ UNCHANGED <<contextVars, scopeVars, exportOptions, dialogVars, isExporting,
                   timers, csvVars, asyncVars>>

NextPdf ==
    \/ \E rt \in ReportTypes : SetReportType(rt)
    \/ \E name \in {"includeSummary", "includeChart", "includeDetails"} :
          \E v \in BOOLEAN : HandleOptionChange(name, v)
    \/ \E canvas \in Canvases : ExportToPDF(canvas)

SpecPdf == InitPdf /\ [][NextPdf]_vars

\* the items of one kind on a page
ItemsOf(page, kind) == {i \in 1..Len(page) : page[i].kind = kind}

\* C22: every page of a saved pdf carries the header, the footer date and
\* exactly one page number, and the k-th page carries number k.
EveryPageNumbered ==
    download.kind = "pdf" =>
        /\ Len(download.pages) >= 1
        /\ \A k \in 1..Len(download.pages) :
              LET page == download.pages[k]
              IN  /\ Cardinality(ItemsOf(page, "header")) = 1
                  /\ Cardinality(ItemsOf(page, "footerDate")) = 1
                  /\ Cardinality(ItemsOf(page, "pageNumber")) = 1
                  /\ \A i \in ItemsOf(page, "pageNumber") : page[i].n = k

\* a detail table that runs over three pages
EveryPageNumberedWitness ==
    /\ download.kind = "pdf"
    /\ Len(download.pages) = 3
    /\ Cardinality(ItemsOf(download.pages[3], "row")) >= 1
    /\ Cardinality(ItemsOf(download.pages[2], "tableHeader")) = 1

\* the baseline the footer texts are written on (lines 1011-1012)
FooterLine == PdfHeight - 10

SectionKinds ==
    {"summaryHeading", "summaryLine", "chartTitle", "chart", "detailHeading",
     "tableHeader", "row"}

\* the items of one kind anywhere in a document
CountOf(pages, kind) ==
    Cardinality({<<k, i>> \in (1..Len(pages)) \X (1..MaxRows + 20) :
                    i <= Len(pages[k]) /\ pages[k][i].kind = kind})

\* C24: a pdf export with includeChart on and no canvas on the page saves a
\* document without a chart image, with the summary and the detail table
\* when they are enabled, and reports no failure.
MissingCanvasOmitsChart ==
    (download.kind = "pdf" /\ exportOptions.includeChart
        /\ Len(chartData.labels) = 0) =>
        /\ alerts = << >>
        /\ ~propagated
        /\ ~download.chartImage
        /\ CountOf(download.pages, "chart") = 0
        /\ exportOptions.includeSummary =>
              download.hasSummary
              /\ CountOf(download.pages, "summaryHeading") = 1
              /\ CountOf(download.pages, "summaryLine") = 5
        /\ exportOptions.includeDetails =>
              download.hasDetails
              /\ CountOf(download.pages, "row") = Len(download.details)

\* a category report without records exported with the three sections on
MissingCanvasOmitsChartWitness ==
    /\ download.kind = "pdf"
    /\ exportOptions.includeChart
    /\ exportOptions.includeSummary
    /\ exportOptions.includeDetails
    /\ Len(chartData.labels) = 0
    /\ ~download.chartImage
    /\ CountOf(download.pages, "summaryLine") = 5

\* C25: a pdf saved with the three sections off is one page with the
\* header, the footer and one placeholder at mid-height and nothing else;
\* a pdf saved with a section on has no placeholder.
PlaceholderOnlyWhenAllOff ==
    download.kind = "pdf" =>
        IF AllOff(exportOptions)
        THEN /\ Len(download.pages) = 1
             /\ CountOf(download.pages, "header") = 1
             /\ CountOf(download.pages, "footerDate") = 1
             /\ CountOf(download.pages, "pageNumber") = 1
             /\ CountOf(download.pages, "placeholder") = 1
             /\ \A i \in ItemsOf(download.pages[1], "placeholder") :
                   download.pages[1][i].y = PdfHeight \div 2
             /\ \A kind \in SectionKinds : CountOf(download.pages, kind) = 0
        ELSE CountOf(download.pages, "placeholder") = 0

\* the placeholder page, saved while records are loaded
PlaceholderOnlyWhenAllOffWitness ==
    /\ download.kind = "pdf"
    /\ AllOff(exportOptions)
    /\ Len(expenses) > 0
    /\ CountOf(download.pages, "placeholder") = 1

----------------------------------------------------------------------------
(* Expense context: requests in flight, the auth listener and the forms *)

MaxInFlight == 2

FetchFailed == "Failed to fetch expenses"
\* err.message of an exception of the store
StoreErrorMessage == "store error"

NoDoc == [none |-> TRUE]

\* a request awaiting the store: the operation, the filter set of the render
\* that issued it, the document it carries, the document it replaces or
\* removes, and the form that awaits it
Request(op, f, doc, old, form) ==
    [op |-> op, filters |-> f, doc |-> doc, old |-> old, form |-> form]

ExpenseOps == {"addExpense", "updateExpense", "deleteExpense"}
BudgetOps == {"addBudget", "updateBudget"}

\* the message of the catch block of each mutation
FailureOf(op) ==
    CASE op = "addExpense" -> "Failed to add expense"
      [] op = "updateExpense" -> "Failed to update expense"
      [] op = "deleteExpense" -> "Failed to delete expense"

\* loading, error and the requests, as one handler run changes them
Provider == [loading |-> loading, error |-> error, inFlight |-> inFlight]

SetProvider(p) ==
    /\ loading' = p.loading
    /\ error' = p.error
    /\ inFlight' = p.inFlight

\* fetchExpenses up to its await (lines 63-88), called from a render that
\* holds the filter set f
fetchExpenses(p, user, f) ==
    IF ~user THEN p
    ELSE [p EXCEPT !.loading = TRUE,
                   !.error = NoError,
                   !.inFlight = Append(@, Request("fetchExpenses", f, NoDoc,
                                                  NoDoc, "none"))]

\* fetchBudgets up to its await (lines 230-233)
fetchBudgets(p, user) ==
    IF ~user THEN p
    ELSE [p EXCEPT !.inFlight = Append(@, Request("fetchBudgets", DefaultFilters,
                                                  NoDoc, NoDoc, "none"))]

AsyncFrame ==
    UNCHANGED <<deleteConfirmed, scopeVars, exportOptions, dialogVars, formatVars,
                isExporting, timers, domVars, outVars, csvVars>>

\* the auth listener, lines 49-60: its fetchExpenses is the one of the first
\* render, which holds the initial filter set
OnAuthStateChanged(user) ==
    /\ currentUser # user
    /\ user => Len(inFlight) + 2 <= MaxInFlight
    /\ currentUser' = user
    /\ IF user
       THEN /\ SetProvider(fetchBudgets(fetchExpenses(Provider, TRUE, DefaultFilters),
                                        TRUE))
            /\ UNCHANGED <<expenses, budgets>>
       ELSE /\ expenses' = << >>
            /\ budgets' = << >>
            /\ UNCHANGED <<loading, error, inFlight>>
    /\ submitted' = NoSubmit
    /\ settled' = NoSettle
    /\ UNCHANGED <<store, filters, fetchedWith, budgetDocs, forms>>
    /\ AsyncFrame

\* updateFilters({category: c}), lines 211-214, up to the await of its
\* fetchExpenses
UpdateFiltersCall(c) ==
    /\ Len(inFlight) < MaxInFlight
    /\ filters' = [filters EXCEPT !.category = c]
    /\ SetProvider(fetchExpenses(Provider, currentUser, filters))
    /\ submitted' = NoSubmit
    /\ settled' = NoSettle
    /\ UNCHANGED <<store, expenses, fetchedWith, budgets, budgetDocs, currentUser,
                   forms>>
    /\ AsyncFrame

\* addExpense, updateExpense and deleteExpense up to their await
ExpenseMutationCall(op, doc, old, form) ==
    /\ currentUser
    /\ Len(inFlight) < MaxInFlight
    /\ SetProvider([Provider EXCEPT
                       !.loading = TRUE,
                       !.error = NoError,
                       !.inFlight = Append(@, Request(op, filters, doc, old, form))])

\* addExpense called with a document the collection does not hold
AddExpenseCall(doc) ==
    /\ doc \notin store
    /\ Cardinality(store) < MaxExpenses
    /\ ExpenseMutationCall("addExpense", doc, NoDoc, "none")
    /\ submitted' = NoSubmit
    /\ settled' = NoSettle
    /\ UNCHANGED <<contextVars, currentUser, forms>>
    /\ AsyncFrame

\* deleteExpense called for a listed expense
DeleteExpenseCall(old) ==
    /\ old \in Range(expenses)
    /\ ExpenseMutationCall("deleteExpense", NoDoc, old, "none")
    /\ submitted' = NoSubmit
    /\ settled' = NoSettle
    /\ UNCHANGED <<contextVars, currentUser, forms>>
    /\ AsyncFrame

\* a failed fetch that also empties the list
FetchExpensesSettledClearing(i, ok) ==
    /\ i \in 1..Len(inFlight)
    /\ inFlight[i].op = "fetchExpenses"
    /\ LET r == inFlight[i]
       IN  /\ IF ok
              THEN /\ expenses' \in
                         Orderings(ClientFiltered(Query(store, r.filters), r.filters))
                   /\ fetchedWith' = r.filters
                   /\ error' = error
              ELSE /\ expenses' = << >>
                   /\ fetchedWith' = fetchedWith
                   /\ error' = FetchFailed
           /\ settled' = [op |-> r.op, ok |-> ok, filters |-> r.filters]
    /\ loading' = FALSE
    /\ inFlight' = RemoveAt(inFlight, i)
    /\ submitted' = NoSubmit
    /\ UNCHANGED <<store, filters, budgets, budgetDocs, currentUser, forms>>
    /\ AsyncFrame

\* fetchExpenses from the answer of getDocs on, lines 88-125
FetchExpensesSettled(i, ok) ==
    /\ i \in 1..Len(inFlight)
    /\ inFlight[i].op = "fetchExpenses"
    /\ LET r == inFlight[i]
       IN  /\ IF ok
              THEN /\ expenses' \in
                         Orderings(ClientFiltered(Query(store, r.filters), r.filters))
                   /\ fetchedWith' = r.filters
                   /\ error' = error
              ELSE /\ expenses' = expenses
                   /\ fetchedWith' = fetchedWith
                   /\ error' = FetchFailed
           /\ settled' = [op |-> r.op, ok |-> ok, filters |-> r.filters]
    /\ loading' = FALSE
    /\ inFlight' = RemoveAt(inFlight, i)
    /\ submitted' = NoSubmit
    /\ UNCHANGED <<store, filters, budgets, budgetDocs, currentUser, forms>>
    /\ AsyncFrame

\* the collection after a mutation the store accepted
StoreAfter(r) ==
    CASE r.op = "addExpense" -> store \cup {r.doc}
      [] r.op = "updateExpense" -> (store \ {r.old}) \cup {r.doc}
      [] r.op = "deleteExpense" -> store \ {r.old}

\* handleSubmit of a form from the answer of its awaited call on: onSubmit
\* after an answer, the message of the exception after a failure, and the
\* finally block of the budget form
FormAfter(form, ok) ==
    IF form = "none" THEN forms
    ELSE LET told == IF ok
                     THEN [forms EXCEPT ![form].onSubmit = TRUE]
                     ELSE [forms EXCEPT ![form].error = StoreErrorMessage]
         IN  IF form = "budget"
             THEN [told EXCEPT !.budget.loading = FALSE]
             ELSE told

\* addExpense, updateExpense and deleteExpense from the answer of the store
\* on: the refresh is started and not awaited, then finally runs
ExpenseMutationSettled(i, ok) ==
    /\ i \in 1..Len(inFlight)
    /\ inFlight[i].op \in ExpenseOps
    /\ LET r == inFlight[i]
           rest == [Provider EXCEPT !.inFlight = RemoveAt(inFlight, i)]
           p == IF ok
                THEN fetchExpenses(rest, currentUser, r.filters)
                ELSE [rest EXCEPT !.error = FailureOf(r.op)]
       IN  /\ ok /\ r.op = "updateExpense" => r.old \in store
           /\ store' = IF ok THEN StoreAfter(r) ELSE store
           /\ SetProvider([p EXCEPT !.loading = FALSE])
           /\ forms' = FormAfter(r.form, ok)
           /\ settled' = [op |-> r.op, ok |-> ok, filters |-> r.filters]
    /\ submitted' = NoSubmit
    /\ UNCHANGED <<expenses, filters, fetchedWith, budgets, budgetDocs, currentUser>>
    /\ AsyncFrame

\* fetchBudgets from the answer of getDocs on, lines 233-244
FetchBudgetsSettled(i, ok) ==
    /\ i \in 1..Len(inFlight)
    /\ inFlight[i].op = "fetchBudgets"
    /\ budgets' = IF ok THEN budgetDocs ELSE budgets
    /\ inFlight' = RemoveAt(inFlight, i)
    /\ settled' = [op |-> "fetchBudgets", ok |-> ok, filters |-> DefaultFilters]
    /\ submitted' = NoSubmit
    /\ UNCHANGED <<store, expenses, filters, fetchedWith, budgetDocs, currentUser,
                   loading, error, forms>>
    /\ AsyncFrame

\* addBudget and updateBudget from the answer of the store on
BudgetMutationSettled(i, ok) ==
    /\ i \in 1..Len(inFlight)
    /\ inFlight[i].op \in BudgetOps
    /\ LET r == inFlight[i]
           rest == [Provider EXCEPT !.inFlight = RemoveAt(inFlight, i)]
       IN  /\ ok /\ r.op = "updateBudget" => r.old.index \in 1..Len(budgetDocs)
           /\ IF ~ok THEN budgetDocs' = budgetDocs
              ELSE IF r.op = "addBudget"
              THEN \E at \in 1..(Len(budgetDocs) + 1) :
                      budgetDocs' = InsertAt(budgetDocs, at, r.doc)
              ELSE budgetDocs' = [budgetDocs EXCEPT ![r.old.index] = r.doc]
           /\ SetProvider(IF ok THEN fetchBudgets(rest, currentUser) ELSE rest)
           /\ forms' = FormAfter(r.form, ok)
           /\ settled' = [op |-> r.op, ok |-> ok, filters |-> r.filters]
    /\ submitted' = NoSubmit
    /\ UNCHANGED <<store, expenses, filters, fetchedWith, budgets, currentUser>>
    /\ AsyncFrame

AsyncDomain ==
    {Expense(10, "food", MkDate(2024, 0, 5), <<"a">>, NoText),
     Expense(20, "transportation", MkDate(2024, 0, 5), <<"a">>, NoText)}

\* the provider after the first fetches of a signed-in user
InitAsync ==
    /\ store \in Stores(AsyncDomain)
    /\ filters = DefaultFilters
    /\ fetchedWith = DefaultFilters
    /\ expenses \in Orderings(store)
    /\ deleteConfirmed = {}
    /\ budgetDocs \in {<< >>, <<Budget("food", 100)>>}
    /\ budgets = budgetDocs
    /\ AsyncIdle
    /\ savedFormat = NoFormat
    /\ ReportsInit
    /\ year = 2024
    /\ month = 0
    /\ OutInit
    /\ CsvIdle

NextAsync ==
    \/ \E user \in BOOLEAN : OnAuthStateChanged(user)
    \/ \E c \in {"", "food"} : UpdateFiltersCall(c)
    \/ \E doc \in AsyncDomain : AddExpenseCall(doc)
    \/ \E old \in AsyncDomain : DeleteExpenseCall(old)
    \/ \E i \in 1..MaxInFlight, ok \in BOOLEAN : FetchExpensesSettled(i, ok)
    \/ \E i \in 1..MaxInFlight, ok \in BOOLEAN : ExpenseMutationSettled(i, ok)
    \/ \E i \in 1..MaxInFlight, ok \in BOOLEAN : FetchBudgetsSettled(i, ok)

SpecAsync == InitAsync /\ [][NextAsync]_vars

\* the requests of one operation among those in flight
CountRequests(s, op) == Cardinality({i \in 1..Len(s) : s[i].op = op})

\* C26: a fetch of expenses that fails leaves 'Failed to fetch expenses' in
\* error, expenses as they were and loading false; every fetch that is
\* started clears the error, and a fetch that succeeds replaces expenses by
\* the records fetched, leaves loading false and sets no error.
FetchFailureRecovered ==
    [][/\ CountRequests(inFlight', "fetchExpenses")
             > CountRequests(inFlight, "fetchExpenses") => error' = NoError
       /\ settled'.op = "fetchExpenses" =>
             IF settled'.ok
             THEN /\ Range(expenses') =
                        ClientFiltered(Query(store, settled'.filters),
                                       settled'.filters)
                  /\ error' = error
                  /\ loading' = FALSE
             ELSE /\ error' = FetchFailed
                  /\ expenses' = expenses
                  /\ loading' = FALSE]_vars

\* a failed fetch has just left a filled list and the error behind
FetchFailureRecoveredWitness ==
    /\ settled.op = "fetchExpenses"
    /\ ~settled.ok
    /\ error = FetchFailed
    /\ expenses # << >>
    /\ ~loading

\* C28: the fetch that updateFilters and resetFilters trigger reads the
\* filter set they have just set, and once it has completed expenses holds
\* the stored records that this filter set selects.
FetchUsesUpdatedFilters ==
    /\ fetchedWith = filters
    /\ Range(expenses) = ClientFiltered(Query(store, filters), filters)

\* C29: loading is true exactly while a fetch of expenses or an addExpense,
\* updateExpense or deleteExpense is in flight, the refresh fetch of a
\* mutation included.
LoadingWhileInFlight ==
    loading <=> \E i \in 1..Len(inFlight) :
                    inFlight[i].op \in ExpenseOps \cup {"fetchExpenses"}

----------------------------------------------------------------------------
(* ExpenseForm and the budget form: handleSubmit *)

Digits == <<"0", "1", "2", "3", "4", "5", "6", "7", "8", "9">>
IsDigit(c) == \E d \in 1..10 : Digits[d] = c
DigitValue(c) == (CHOOSE d \in 1..10 : Digits[d] = c) - 1

\* the number of digits s begins with
LeadingDigits(s) ==
    Cardinality({k \in 1..Len(s) : \A j \in 1..k : IsDigit(s[j])})

RECURSIVE ValueOf(_)
ValueOf(ds) ==
    IF ds = << >> THEN 0
    ELSE 10 * ValueOf(SubSeq(ds, 1, Len(ds) - 1)) + DigitValue(ds[Len(ds)])

RECURSIVE Pow10(_)
Pow10(n) == IF n = 0 THEN 1 ELSE 10 * Pow10(n - 1)

\* a parse that takes every text for the number 1
parseFloatLenient(s) == [nan |-> FALSE, num |-> 1, den |-> 1]

\* parseFloat: an optional sign, digits, an optional point and digits, and
\* whatever follows is ignored; NaN when no digit is found
parseFloat(s) ==
    LET signed == s # << >> /\ s[1] \in {"-", "+"}
        body == IF signed THEN Tail(s) ELSE s
        n == LeadingDigits(body)
        rest == SubSeq(body, n + 1, Len(body))
        m == IF rest # << >> /\ rest[1] = "." THEN LeadingDigits(Tail(rest)) ELSE 0
        whole == ValueOf(SubSeq(body, 1, n))
        frac == ValueOf(SubSeq(rest, 2, m + 1))
        sign == IF signed /\ s[1] = "-" THEN -1 ELSE 1
    IN  IF n + m = 0
        THEN [nan |-> TRUE, num |-> 0, den |-> 1]
        ELSE [nan |-> FALSE, num |-> sign * (whole * Pow10(m) + frac),
              den |-> Pow10(m)]

\* the amount test of both forms:
\* !amount || isNaN(parseFloat(amount)) || parseFloat(amount) <= 0
InvalidAmount(amount) ==
    \/ amount = << >>
    \/ parseFloat(amount).nan
    \/ parseFloat(amount).num <= 0

\* the number the context stores: parseFloat(expenseData.amount); a whole
\* number is kept as an integer
StoredAmount(amount) ==
    LET r == parseFloat(amount)
    IN  IF r.nan THEN NaN
        ELSE IF r.num % r.den = 0 THEN r.num \div r.den ELSE r

\* !formData.title.trim()
BlankTitle(title) == \A i \in 1..Len(title) : IsWhitespace(title[i])

\* amounts a handleSubmit refuses
RefusedAmounts ==
    {<< >>, <<"a">>, <<"0">>, <<"-", "5">>, <<"0", ".", "0">>}

AmountInputs == RefusedAmounts \cup {<<"2", "0", ".", "0">>}

ValidationErrors ==
    {"Title is required", "Please enter a valid amount", "Please select a category"}

\* ExpenseForm.handleSubmit, lines 43-81, up to its await; old is the
\* expense under edit, NoDoc for a new one; the button is disabled while
\* the context is loading
ExpenseFormSubmit(title, amount, cat, old) ==
    /\ forms.mounted = "expense"
    /\ ~loading
    /\ Len(inFlight) < MaxInFlight
    /\ old # NoDoc => old \in Range(expenses)
    /\ old = NoDoc => Cardinality(store) < MaxStore
    /\ LET verdict == IF BlankTitle(title) THEN "Title is required"
                      ELSE IF InvalidAmount(amount) THEN "Please enter a valid amount"
                      ELSE IF cat = "" THEN "Please select a category"
                      ELSE NoError
           doc == Expense(StoredAmount(amount), cat, MkDate(2024, 0, 5), title, NoText)
           op == IF old # NoDoc THEN "updateExpense" ELSE "addExpense"
       IN  /\ submitted' = [form |-> "expense", amount |-> amount,
                            called |-> verdict = NoError]
           /\ IF verdict # NoError
              THEN /\ forms' = [forms EXCEPT
                                   !.expense = [error |-> verdict, onSubmit |-> FALSE]]
                   /\ UNCHANGED <<loading, error, inFlight>>
              ELSE IF ~currentUser
              THEN /\ forms' = [forms EXCEPT
                                   !.expense = [error |-> NoError, onSubmit |-> TRUE]]
                   /\ UNCHANGED <<loading, error, inFlight>>
              ELSE /\ forms' = [forms EXCEPT
                                   !.expense = [error |-> NoError, onSubmit |-> FALSE]]
                   /\ ExpenseMutationCall(op, doc, old, "expense")
    /\ settled' = NoSettle
    /\ UNCHANGED <<contextVars, currentUser>>
    /\ AsyncFrame

\* BudgetForm.handleSubmit, lines 36-72, up to its await; index is the place
\* of the budget under edit, 0 for a new one; the button is disabled while
\* the form is loading
BudgetFormSubmit(cat, amount, index) ==
    /\ forms.mounted = "budget"
    /\ ~forms.budget.loading
    /\ Len(inFlight) < MaxInFlight
    /\ index \in 0..Len(budgets)
    /\ index = 0 => Len(budgetDocs) < MaxBudgets
    /\ LET verdict == IF cat = "" THEN "Please select a category"
                      ELSE IF InvalidAmount(amount) THEN "Please enter a valid amount"
                      ELSE NoError
           doc == Budget(cat, StoredAmount(amount))
           op == IF index # 0 THEN "updateBudget" ELSE "addBudget"
       IN  /\ submitted' = [form |-> "budget", amount |-> amount,
                            called |-> verdict = NoError]
           /\ IF verdict # NoError
              THEN /\ forms' = [forms EXCEPT
                                   !.budget = [error |-> verdict, onSubmit |-> FALSE,
                                               loading |-> FALSE]]
                   /\ UNCHANGED inFlight
              ELSE IF ~currentUser
              THEN /\ forms' = [forms EXCEPT
                                   !.budget = [error |-> NoError, onSubmit |-> TRUE,
                                               loading |-> FALSE]]
                   /\ UNCHANGED inFlight
              ELSE /\ forms' = [forms EXCEPT
                                   !.budget = [error |-> NoError, onSubmit |-> FALSE,
                                               loading |-> TRUE]]
                   /\ inFlight' = Append(inFlight,
                                         Request(op, DefaultFilters, doc,
                                                 [index |-> index], "budget"))
    /\ settled' = NoSettle
    /\ UNCHANGED <<contextVars, currentUser, loading, error>>
    /\ AsyncFrame

FormDomain == {Expense(10, "food", MkDate(2024, 0, 5), <<"a">>, NoText)}

\* the provider after the first fetches of a signed-in user, on the page
\* of the expense list or on the page of the budgets
InitForm ==
    /\ store \in Stores(FormDomain)
    /\ filters = DefaultFilters
    /\ fetchedWith = DefaultFilters
    /\ expenses \in Orderings(store)
    /\ deleteConfirmed = {}
    /\ budgetDocs \in {<< >>, <<Budget("food", 100)>>}
    /\ budgets = budgetDocs
    /\ currentUser = TRUE
    /\ loading = FALSE
    /\ error = NoError
    /\ inFlight = << >>
    /\ forms \in {[FormsIdle EXCEPT !.mounted = form] : form \in {"expense", "budget"}}
    /\ submitted = NoSubmit
    /\ settled = NoSettle
    /\ savedFormat = NoFormat
    /\ ReportsInit
    /\ year = 2024
    /\ month = 0
    /\ OutInit
    /\ CsvIdle

NextForm ==
    \/ \E title \in {<< >>, <<" ">>, <<"a">>}, amount \in AmountInputs,
          cat \in {"", "food"}, old \in FormDomain \cup {NoDoc} :
          ExpenseFormSubmit(title, amount, cat, old)
    \/ \E cat \in {"", "food"}, amount \in AmountInputs, index \in 0..MaxBudgets :
          BudgetFormSubmit(cat, amount, index)
    \/ \E i \in 1..MaxInFlight, ok \in BOOLEAN : FetchExpensesSettled(i, ok)
    \/ \E i \in 1..MaxInFlight, ok \in BOOLEAN : ExpenseMutationSettled(i, ok)
    \/ \E i \in 1..MaxInFlight, ok \in BOOLEAN : FetchBudgetsSettled(i, ok)
    \/ \E i \in 1..MaxInFlight, ok \in BOOLEAN : BudgetMutationSettled(i, ok)

SpecForm == InitForm /\ [][NextForm]_vars

\* C27: every expense and budget that a form hands to the context, and
\* every document of the two collections, has an amount above 0; and a
\* handleSubmit that reads a missing, non-numeric or non-positive amount
\* sets a validation error, calls neither add nor update, does not invoke
\* onSubmit and leaves the loading flag of the form false.
SubmittedAmountsPositive ==
    /\ \A i \in 1..Len(inFlight) :
          inFlight[i].op \in {"addExpense", "updateExpense", "addBudget",
                              "updateBudget"} => inFlight[i].doc.amount > 0
    /\ \A e \in store : e.amount > 0
    /\ \A i \in 1..Len(budgetDocs) : budgetDocs[i].amount > 0
    /\ (submitted.form # "none"
           /\ submitted.amount \in RefusedAmounts) =>
          /\ forms[submitted.form].error \in ValidationErrors
          /\ ~submitted.called
          /\ ~forms[submitted.form].onSubmit
          /\ submitted.form = "budget" => ~forms.budget.loading

\* the budget form has just refused the amount 0.0 while the collection
\* holds a budget submitted before
SubmittedAmountsPositiveWitness ==
    /\ submitted.form = "budget"
    /\ submitted.amount = <<"0", ".", "0">>
    /\ forms.budget.error = "Please enter a valid amount"
    /\ \E i \in 1..Len(budgetDocs) : budgetDocs[i] = Budget("food", 20)

====
